---------------------------- MODULE Spec2Model ----------------------------
(***************************************************************************)
(* RecoverX: ransomware detection and automated recovery.                  *)
(*                                                                         *)
(*   BackupManager   (src/src/backup_manager.py)    the snapshot store     *)
(*   RecoveryEngine  (src/src/recovery_engine.py)   restore with fallback  *)
(*   ThreatDetector  (src/src/threat_detector.py)   the heuristic scorer   *)
(*   FileSystemMonitor (src/src/file_monitor.py)    the event ledger       *)
(*   AutomatedResponseSystem (src/src/automated_response.py)               *)
(*                                                                         *)
(* A path is a tuple <<directory, stem, suffix>>; a file content is a      *)
(* tuple <<size, bytes>>, and <<>> stands for "no such file".  The clock   *)
(* `now` counts readings of datetime.now(): TicksPerMs readings share one  *)
(* millisecond and TicksPerSec readings one second.                        *)
(***************************************************************************)
EXTENDS Integers, Sequences, FiniteSets, TLC

VARIABLES
    now,              \* the value datetime.now() returns
    disk,             \* watched files: path -> content, NoFile when absent
    bdisk,            \* backup directory: backup file name -> content
    retention_count,  \* BackupManager.retention_count
    backup_records,   \* BackupManager.backup_records: path -> list of records
    nextId,           \* identity of the next BackupRecord object created
    recovery_stats,   \* RecoveryEngine.recovery_stats
    ret,              \* the call that returned last, with its return value
    lastBackup,       \* history: content copied by the last successful create_backup of a path
    extDeleted,       \* history: a backup file was deleted from outside the program
    recent_events,        \* FileSystemMonitor.recent_events
    detection_threshold,  \* ThreatDetector.detection_threshold
    time_window_seconds,  \* ThreatDetector.time_window_seconds
    detection,            \* the DetectionResult analyze_events returned last
    callbacks,            \* the threads that run add_file_event: position, list built
    recorded,             \* history: the events add_file_event appended, in order
    monitor_active,     \* FileSystemMonitor.is_active()
    is_active,          \* AutomatedResponseSystem.is_active
    stop_event,         \* AutomatedResponseSystem.stop_event
    monitoring_thread,  \* AutomatedResponseSystem.monitoring_thread, 0 for None
    response_threshold, \* AutomatedResponseSystem.response_threshold
    response_actions,   \* AutomatedResponseSystem.response_actions
    stats,              \* AutomatedResponseSystem.stats
    response_lock,      \* the worker holding response_lock, 0 when free
    workers,            \* the threads created to run _monitoring_loop
    stopping,           \* the caller of stop_automated_response is in join()
    call                \* the start/stop call that returned last

storeVars == <<now, disk, bdisk, retention_count, backup_records, nextId,
               recovery_stats, ret, lastBackup, extDeleted>>

scoreVars == <<recent_events, detection_threshold, time_window_seconds, detection,
               callbacks, recorded>>

orchVars == <<monitor_active, is_active, stop_event, monitoring_thread,
              response_threshold, response_actions, stats, response_lock,
              workers, stopping, call>>

vars == <<storeVars, scoreVars, orchVars>>

-----------------------------------------------------------------------------
(* Bounds *)

TicksPerMs == 1
MaxTicks == 1
MaxRetention == 2
MaxBackups == 2
MaxRestores == 1
MaxBatch == 5
MaxThreshold == 2
MaxStale == 1
MaxWorkers == 2
MaxThreats == 1
MaxRewrites == 1

MaxCallbacks == 2

MaxRecords == 2

MaxPlain == 7

MaxSuspicious == 3

MaxGrowing == 3

MaxLedger == 3

MaxVersions == 2

MaxCalls == 2

MaxHandlings == 6

MaxMixed == 3
MaxPair == 2

-----------------------------------------------------------------------------
(* Files *)

NoFile == <<>>

Size(c) == c[1]

Contents == {<<1, "x">>, <<2, "y">>}

StorePaths == {<<"d1", "f", ".txt">>, <<"d2", "f", ".txt">>}

Stem(p) == p[2]

Suffix(p) == p[3]

Exists(d, p) == d[p] # NoFile

-----------------------------------------------------------------------------
(* BackupManager *)

\* strftime("%Y%m%d_%H%M%S_%f")[:-3]: the timestamp cut to milliseconds
TimestampStr(t) == t \div TicksPerMs

\* backup_directory / f"{stem}_{timestamp_str}{suffix}"
BackupPath(p, t) == <<Stem(p), TimestampStr(t), Suffix(p)>>

Range(s) == {s[i] : i \in DOMAIN s}

\* the position x takes in a list sorted newest first: behind every element
\* that is at least as new (list.sort and sorted are stable, also with
\* reverse=True)
InsertDesc(s, x) ==
    LET k == Cardinality({i \in DOMAIN s : s[i].timestamp >= x.timestamp})
    IN  SubSeq(s, 1, k) \o <<x>> \o SubSeq(s, k + 1, Len(s))

RECURSIVE SortDesc(_)
SortDesc(s) ==
    IF s = <<>> THEN <<>>
    ELSE InsertDesc(SortDesc(SubSeq(s, 1, Len(s) - 1)), s[Len(s)])

Min(a, b) == IF a < b THEN a ELSE b

\* records[:retention_count]
Kept(records, n) == SubSeq(records, 1, Min(n, Len(records)))

\* records[retention_count:]
Excess(records, n) == SubSeq(records, n + 1, Len(records))

\* Path.unlink of every excess record whose file exists
Unlink(bd, names) == [b \in DOMAIN bd \ names |-> bd[b]]

\* a cleanup that keeps the oldest records
CleanupRecordsOldest(records, n) ==
    LET sorted == SortDesc(records)
    IN  SubSeq(sorted, Len(sorted) - Min(n, Len(sorted)) + 1, Len(sorted))

CleanupRecords(records, n) == Kept(SortDesc(records), n)

CleanupFiles(bd, records, n) ==
    Unlink(bd, {r.backup_path : r \in Range(Excess(SortDesc(records), n))})

ListBackups(p) ==
    IF p \in DOMAIN backup_records THEN SortDesc(backup_records[p]) ELSE <<>>

HasLatest(p) == ListBackups(p) # <<>>

GetLatestBackup(p) == ListBackups(p)[1]

NoRet == [op |-> "none"]

\* The source may be changed by another process between shutil.copy2 and
\* source_path.stat(): race = "none", <<"write", c>> or "delete".
NoRace == <<"none">>

Races == {NoRace, <<"delete">>} \cup {<<"write", c>> : c \in Contents}

AfterRace(c, race) ==
    IF race[1] = "none" THEN c
    ELSE IF race[1] = "delete" THEN NoFile
    ELSE race[2]

\* create_backup without the test of source_path.exists(): it appends the
\* record before it copies
CreateBackupUnchecked(p, race) ==
    /\ IF ~Exists(disk, p)
       THEN \* the record is in the history when the copy raises
            /\ race = NoRace
            /\ backup_records' =
                 [q \in DOMAIN backup_records \cup {p} |->
                    IF q = p
                    THEN Append(IF p \in DOMAIN backup_records
                                THEN backup_records[p] ELSE <<>>,
                                [original_path |-> p,
                                 backup_path   |-> BackupPath(p, now),
                                 timestamp     |-> now,
                                 file_size     |-> 0,
                                 id            |-> nextId])
                    ELSE backup_records[q]]
            /\ nextId' = nextId + 1
            /\ ret' = [op |-> "create_backup", path |-> p, ok |-> FALSE]
            /\ UNCHANGED <<disk, bdisk, lastBackup>>
       ELSE LET copied == disk[p]
                bpath  == BackupPath(p, now)
                bd1    == [b \in DOMAIN bdisk \cup {bpath} |->
                              IF b = bpath THEN copied ELSE bdisk[b]]
                src    == AfterRace(copied, race)
            IN  /\ disk' = [disk EXCEPT ![p] = src]
                /\ IF src = NoFile
                   THEN \* stat() raises, caught: return None, the copy stays
                        /\ bdisk' = bd1
                        /\ ret' = [op |-> "create_backup", path |-> p, ok |-> FALSE]
                        /\ UNCHANGED <<backup_records, nextId, lastBackup>>
                   ELSE LET rec == [original_path |-> p,
                                    backup_path   |-> bpath,
                                    timestamp     |-> now,
                                    file_size     |-> Size(src),
                                    id            |-> nextId]
                            old == IF p \in DOMAIN backup_records
                                   THEN backup_records[p] ELSE <<>>
                            all == Append(old, rec)
                        IN  /\ backup_records' =
                                 [q \in DOMAIN backup_records \cup {p} |->
                                    IF q = p
                                    THEN CleanupRecords(all, retention_count)
                                    ELSE backup_records[q]]
                            /\ bdisk' = CleanupFiles(bd1, all, retention_count)
                            /\ nextId' = nextId + 1
                            /\ lastBackup' = [lastBackup EXCEPT ![p] = copied]
                            /\ ret' = [op |-> "create_backup", path |-> p,
                                       ok |-> TRUE, record |-> rec,
                                       old |-> old]
    /\ UNCHANGED <<now, retention_count, recovery_stats, extDeleted>>

CreateBackup(p, race) ==
    /\ IF ~Exists(disk, p)
       THEN \* FileNotFoundError, caught: return None
            /\ race = NoRace
            /\ ret' = [op |-> "create_backup", path |-> p, ok |-> FALSE]
            /\ UNCHANGED <<disk, bdisk, backup_records, nextId, lastBackup>>
       ELSE LET copied == disk[p]
                bpath  == BackupPath(p, now)
                bd1    == [b \in DOMAIN bdisk \cup {bpath} |->
                              IF b = bpath THEN copied ELSE bdisk[b]]
                src    == AfterRace(copied, race)
            IN  /\ disk' = [disk EXCEPT ![p] = src]
                /\ IF src = NoFile
                   THEN \* stat() raises, caught: return None, the copy stays
                        /\ bdisk' = bd1
                        /\ ret' = [op |-> "create_backup", path |-> p, ok |-> FALSE]
                        /\ UNCHANGED <<backup_records, nextId, lastBackup>>
                   ELSE LET rec == [original_path |-> p,
                                    backup_path   |-> bpath,
                                    timestamp     |-> now,
                                    file_size     |-> Size(src),
                                    id            |-> nextId]
                            old == IF p \in DOMAIN backup_records
                                   THEN backup_records[p] ELSE <<>>
                            all == Append(old, rec)
                        IN  /\ backup_records' =
                                 [q \in DOMAIN backup_records \cup {p} |->
                                    IF q = p
                                    THEN CleanupRecords(all, retention_count)
                                    ELSE backup_records[q]]
                            /\ bdisk' = CleanupFiles(bd1, all, retention_count)
                            /\ nextId' = nextId + 1
                            /\ lastBackup' = [lastBackup EXCEPT ![p] = copied]
                            /\ ret' = [op |-> "create_backup", path |-> p,
                                       ok |-> TRUE, record |-> rec,
                                       old |-> old]
    /\ UNCHANGED <<now, retention_count, recovery_stats, extDeleted>>

-----------------------------------------------------------------------------
(* RecoveryEngine *)

\* verify_restoration returning the outcome of the hash comparison
VerifyRestorationStrict(c, rec) ==
    c # NoFile /\ Size(c) = rec.file_size /\ c = bdisk[rec.backup_path]

\* verify_restoration: the restored file exists and has the recorded size;
\* the hash comparison that follows returns True whatever its outcome
VerifyRestoration(c, rec) == c # NoFile /\ Size(c) = rec.file_size

\* _attempt_restore_from_backup succeeds iff the backup file exists
AttemptOk(rec) == rec.backup_path \in DOMAIN bdisk

AttemptResult(p, rec, verify) ==
    IF ~AttemptOk(rec)
    THEN [file_path |-> p, success |-> FALSE, backup_used |-> <<rec.backup_path>>,
          error_message |-> "Backup file does not exist",
          verification_passed |-> FALSE, used |-> 0]
    ELSE [file_path |-> p, success |-> TRUE, backup_used |-> <<rec.backup_path>>,
          error_message |-> "",
          verification_passed |->
              IF verify THEN VerifyRestoration(bdisk[rec.backup_path], rec) ELSE TRUE,
          used |-> rec.id]

FailResult(p, msg) ==
    [file_path |-> p, success |-> FALSE, backup_used |-> <<>>,
     error_message |-> msg, verification_passed |-> FALSE, used |-> 0]

\* the records of a list that an attempt is made on, in order
FirstOk(s) ==
    IF \E i \in DOMAIN s : AttemptOk(s[i])
    THEN CHOOSE i \in DOMAIN s : AttemptOk(s[i]) /\ \A j \in 1..(i - 1) : ~AttemptOk(s[j])
    ELSE 0

\* _try_fallback_backups with the slice one too far, all_backups[2:]
TryFallbackBackupsFromThird(p, verify) ==
    LET all      == ListBackups(p)
        fallback == SubSeq(all, 3, Len(all))
    IN  IF fallback = <<>> THEN FailResult(p, "No fallback backups available")
        ELSE IF FirstOk(fallback) = 0
             THEN FailResult(p, "All backup restoration attempts failed")
             ELSE AttemptResult(p, fallback[FirstOk(fallback)], verify)

\* _try_fallback_backups: all_backups[1:], the first that restores
TryFallbackBackups(p, verify) ==
    LET fallback == Tail(ListBackups(p))
    IN  IF fallback = <<>> THEN FailResult(p, "No fallback backups available")
        ELSE IF FirstOk(fallback) = 0
             THEN FailResult(p, "All backup restoration attempts failed")
             ELSE AttemptResult(p, fallback[FirstOk(fallback)], verify)

RestoreResult(p, verify) ==
    IF ~HasLatest(p) THEN FailResult(p, "No backup found for file")
    ELSE LET first == AttemptResult(p, GetLatestBackup(p), verify)
         IN  IF first.success THEN first ELSE TryFallbackBackups(p, verify)

\* the target after restore_file: the content of the backup that was copied
RestoredDisk(d, res) ==
    IF res.success THEN [d EXCEPT ![res.file_path] = bdisk[res.backup_used[1]]]
    ELSE d

\* the counters when a failure is logged and not counted
StatsAfterUncounted(st, res) ==
    [total_attempts        |-> st.total_attempts + 1,
     successful_recoveries |-> st.successful_recoveries + (IF res.success THEN 1 ELSE 0),
     failed_recoveries     |-> st.failed_recoveries,
     files_recovered       |-> IF res.success
                               THEN Append(st.files_recovered, res.file_path)
                               ELSE st.files_recovered]

\* the counters when every version tried counts as an attempt
StatsAfterPerVersion(st, res) ==
    [total_attempts        |-> st.total_attempts
                               + (IF res.used # 0 /\ HasLatest(res.file_path)
                                     /\ res.used # GetLatestBackup(res.file_path).id
                                  THEN 2 ELSE 1),
     successful_recoveries |-> st.successful_recoveries + (IF res.success THEN 1 ELSE 0),
     failed_recoveries     |-> st.failed_recoveries + (IF res.success THEN 0 ELSE 1),
     files_recovered       |-> IF res.success
                               THEN Append(st.files_recovered, res.file_path)
                               ELSE st.files_recovered]

StatsAfter(st, res) ==
    [total_attempts        |-> st.total_attempts + 1,
     successful_recoveries |-> st.successful_recoveries + (IF res.success THEN 1 ELSE 0),
     failed_recoveries     |-> st.failed_recoveries + (IF res.success THEN 0 ELSE 1),
     files_recovered       |-> IF res.success
                               THEN Append(st.files_recovered, res.file_path)
                               ELSE st.files_recovered]

\* restore_file that moves the backup file to the target instead of copying it
RestoreFileMoving(p, verify) ==
    /\ LET res == RestoreResult(p, verify)
       IN  /\ disk' = RestoredDisk(disk, res)
           /\ bdisk' = IF res.success THEN Unlink(bdisk, {res.backup_used[1]}) ELSE bdisk
           /\ recovery_stats' = StatsAfter(recovery_stats, res)
           /\ ret' = [op |-> "restore_file", path |-> p, result |-> res,
                      newest |-> IF HasLatest(p) THEN GetLatestBackup(p).id ELSE 0]
    /\ UNCHANGED <<now, retention_count, backup_records, nextId,
                   lastBackup, extDeleted>>

RestoreFile(p, verify) ==
    /\ LET res == RestoreResult(p, verify)
       IN  /\ disk' = RestoredDisk(disk, res)
           /\ recovery_stats' = StatsAfter(recovery_stats, res)
           /\ ret' = [op |-> "restore_file", path |-> p, result |-> res,
                      newest |-> IF HasLatest(p) THEN GetLatestBackup(p).id ELSE 0]
    /\ UNCHANGED <<now, bdisk, retention_count, backup_records, nextId,
                   lastBackup, extDeleted>>

-----------------------------------------------------------------------------
(* Environment: the clock and other processes *)

Tick ==
    /\ now < MaxTicks
    /\ now' = now + 1
    /\ ret' = NoRet
    /\ UNCHANGED <<disk, bdisk, retention_count, backup_records, nextId,
                   recovery_stats, lastBackup, extDeleted>>

\* another process (the ransomware) overwrites or creates a watched file
WriteFile(p, c) ==
    /\ disk[p] # c
    /\ disk' = [disk EXCEPT ![p] = c]
    /\ ret' = NoRet
    /\ UNCHANGED <<now, bdisk, retention_count, backup_records, nextId,
                   recovery_stats, lastBackup, extDeleted>>

\* another process deletes a watched file
DeleteFile(p) ==
    /\ Exists(disk, p)
    /\ disk' = [disk EXCEPT ![p] = NoFile]
    /\ ret' = NoRet
    /\ UNCHANGED <<now, bdisk, retention_count, backup_records, nextId,
                   recovery_stats, lastBackup, extDeleted>>

\* a backup file is deleted from outside the program
DeleteBackupFile(b) ==
    /\ b \in DOMAIN bdisk
    /\ bdisk' = Unlink(bdisk, {b})
    /\ extDeleted' = TRUE
    /\ ret' = NoRet
    /\ UNCHANGED <<now, disk, retention_count, backup_records, nextId,
                   recovery_stats, lastBackup>>

-----------------------------------------------------------------------------
(* ThreatDetector *)

TicksPerSec == 1000 * TicksPerMs

\* str.lower() on the suffixes that occur
Lower(x) ==
    IF x = ".LOCKED" THEN ".locked"
    ELSE IF x = ".Encrypted" THEN ".encrypted"
    ELSE x

\* the default list, lowercased by __init__
suspicious_extensions ==
    {".encrypted", ".locked", ".crypto", ".crypt", ".enc", ".vault"}

\* file_path.lower().endswith(ext) for some configured extension
IsSuspicious(p) == Lower(Suffix(p)) \in suspicious_extensions

\* _filter_recent_events: event.timestamp > now - timedelta(seconds=window)
FilterRecentEvents(events, t, window) ==
    LET Recent(e) == e.timestamp > t - window * TicksPerSec
    IN  SelectSeq(events, Recent)

\* the test of the event type when a move counts as a modification
IsChange(e) == e.event_type \in {"modified", "created", "moved"}

IsModification(e) == e.event_type \in {"modified", "created"}

Paths(s) == {s[i].file_path : i \in DOMAIN s}

\* _check_modification_rate counting the files written, not the events
CheckModificationRateByFile(events, threshold) ==
    LET mods == SelectSeq(events, IsModification)
        n    == Cardinality(Paths(mods))
    IN  IF n >= threshold
        THEN <<Min(30 + (n - threshold) * 5, 50), Paths(mods), n>>
        ELSE <<0, {}, 0>>

\* _check_modification_rate: <<score, affected files>>
CheckModificationRate(events, threshold) ==
    LET mods == SelectSeq(events, IsModification)
    IN  IF Len(mods) >= threshold
        THEN <<Min(30 + (Len(mods) - threshold) * 5, 50), Paths(mods), Len(mods)>>
        ELSE <<0, {}, 0>>

\* _check_suspicious_extensions comparing the path as it is, without lower()
CheckSuspiciousExtensionsCased(events) ==
    LET SuspiciousMod(e) == IsModification(e) /\ Suffix(e.file_path) \in suspicious_extensions
        hits == SelectSeq(events, SuspiciousMod)
    IN  IF hits # <<>>
        THEN <<Min(40 + Len(hits) * 10, 60), Paths(hits), Len(hits)>>
        ELSE <<0, {}, 0>>

\* _check_suspicious_extensions with a base score of 30
CheckSuspiciousExtensionsLow(events) ==
    LET SuspiciousMod(e) == IsModification(e) /\ IsSuspicious(e.file_path)
        hits == SelectSeq(events, SuspiciousMod)
    IN  IF hits # <<>>
        THEN <<Min(30 + Len(hits) * 10, 60), Paths(hits), Len(hits)>>
        ELSE <<0, {}, 0>>

\* _check_suspicious_extensions: one list entry per matching event
CheckSuspiciousExtensions(events) ==
    LET SuspiciousMod(e) == IsModification(e) /\ IsSuspicious(e.file_path)
        hits == SelectSeq(events, SuspiciousMod)
    IN  IF hits # <<>>
        THEN <<Min(40 + Len(hits) * 10, 60), Paths(hits), Len(hits)>>
        ELSE <<0, {}, 0>>

\* the position x takes in a list sorted oldest first (list.sort is stable)
InsertAsc(s, x) ==
    LET k == Cardinality({i \in DOMAIN s : s[i].timestamp <= x.timestamp})
    IN  SubSeq(s, 1, k) \o <<x>> \o SubSeq(s, k + 1, Len(s))

RECURSIVE SortAsc(_)
SortAsc(s) ==
    IF s = <<>> THEN <<>>
    ELSE InsertAsc(SortAsc(SubSeq(s, 1, Len(s) - 1)), s[Len(s)])

\* the size test with size_increase_ratio >= 1.2
GrewAtLeast(prev, curr) == prev > 0 /\ curr > prev /\ 5 * curr >= 6 * prev

\* curr_size / prev_size > 1.2 with prev_size > 0 and curr_size > prev_size
Grew(prev, curr) == prev > 0 /\ curr > prev /\ 5 * curr > 6 * prev

\* _check_file_size_changes
CheckFileSizeChanges(events) ==
    LET Modified(e) == e.event_type = "modified"
        mods == SelectSeq(events, Modified)
        Of(p) == LET At(e) == e.file_path = p IN SortAsc(SelectSeq(mods, At))
        Flagged(p) == \E i \in 2..Len(Of(p)) :
                          Grew(Of(p)[i - 1].file_size, Of(p)[i].file_size)
        hits == {p \in Paths(mods) : Flagged(p)}
    IN  IF hits # {}
        THEN <<Min(20 + Cardinality(hits) * 5, 30), hits, Cardinality(hits)>>
        ELSE <<0, {}, 0>>

NoDetection ==
    [is_threat |-> FALSE, threat_score |-> 0, affected_files |-> {},
     reasons |-> {"No recent file activity"}, timestamp |-> 0,
     modification_score |-> 0, extension_score |-> 0, size_score |-> 0]

\* the verdict analyze_events builds from the three sub-score results
Verdict(rate, ext, grow, t, is_threat, threat_score) ==
    LET why == (IF rate[1] > 0 THEN {"High modification rate"} ELSE {})
               \cup (IF ext[1] > 0 THEN {"Suspicious file extensions detected"} ELSE {})
               \cup (IF grow[1] > 0 THEN {"Rapid file size changes"} ELSE {})
    IN  [is_threat |-> is_threat,
         threat_score |-> threat_score,
         affected_files |-> rate[2] \cup ext[2] \cup grow[2],
         reasons |-> IF why = {} THEN {"No threats detected"} ELSE why,
         timestamp |-> t,
         modification_score |-> rate[1],
         extension_score |-> ext[1],
         size_score |-> grow[1]]

\* analyze_events returning the sum as it is, without min(total_score, 100)
AnalyzeEventsUncapped(events, t, threshold, window) ==
    LET recent == FilterRecentEvents(events, t, window)
        rate   == CheckModificationRate(recent, threshold)
        ext    == CheckSuspiciousExtensions(recent)
        grow   == CheckFileSizeChanges(recent)
        total  == rate[1] + ext[1] + grow[1]
    IN  IF recent = <<>> THEN [NoDetection EXCEPT !.timestamp = t]
        ELSE Verdict(rate, ext, grow, t, total >= 50, total)

\* analyze_events with is_threat = total_score > 50
AnalyzeEventsAbove50(events, t, threshold, window) ==
    LET recent == FilterRecentEvents(events, t, window)
        rate   == CheckModificationRate(recent, threshold)
        ext    == CheckSuspiciousExtensions(recent)
        grow   == CheckFileSizeChanges(recent)
        total  == rate[1] + ext[1] + grow[1]
    IN  IF recent = <<>> THEN [NoDetection EXCEPT !.timestamp = t]
        ELSE Verdict(rate, ext, grow, t, total > 50, Min(total, 100))

\* analyze_events; the three sub-scores are kept beside the result
AnalyzeEvents(events, t, threshold, window) ==
    LET recent == FilterRecentEvents(events, t, window)
        rate   == CheckModificationRate(recent, threshold)
        ext    == CheckSuspiciousExtensions(recent)
        grow   == CheckFileSizeChanges(recent)
        total  == rate[1] + ext[1] + grow[1]
    IN  IF recent = <<>> THEN [NoDetection EXCEPT !.timestamp = t]
        ELSE Verdict(rate, ext, grow, t, total >= 50, Min(total, 100))

Analyze ==
    /\ detection' = AnalyzeEvents(recent_events, now, detection_threshold,
                                  time_window_seconds)
    /\ UNCHANGED <<recent_events, detection_threshold, time_window_seconds,
                   callbacks, recorded>>


-----------------------------------------------------------------------------
(* FileSystemMonitor *)

HorizonSeconds == 60

PollSeconds == 10

\* add_file_event: the size is read when the callback runs (0 when the file
\* is gone), the event appended and the list cut to the last 60 seconds
AddFileEvent(events, kind, p, d) ==
    LET e == [timestamp  |-> now,
              file_path  |-> p,
              event_type |-> kind,
              file_size  |-> IF Exists(d, p) THEN Size(d[p]) ELSE 0]
    IN  FilterRecentEvents(Append(events, e), now, HorizonSeconds)

\* get_recent_events(seconds)
GetRecentEventsInclusive(seconds) ==
    LET Recent(e) == e.timestamp >= now - seconds * TicksPerSec
    IN  SelectSeq(recent_events, Recent)

\* get_recent_events: event.timestamp > cutoff_time, in list order
GetRecentEvents(seconds) == FilterRecentEvents(recent_events, now, seconds)

\* get_modification_count: the events of type 'modified' among them
GetModificationCount(seconds) ==
    LET IsModified(e) == e.event_type = "modified"
    IN  Len(SelectSeq(GetRecentEvents(seconds), IsModified))

\* the threads that call add_file_event
Callbacks == 1..MaxCallbacks

-----------------------------------------------------------------------------
(* AutomatedResponseSystem *)

Workers == 1..MaxWorkers

Unborn ==
    [pc |-> "unborn", det |-> NoDetection, files |-> <<>>, idx |-> 0,
     results |-> <<>>, firstId |-> 0, iter |-> "none", seen |-> 0, logged |-> 0]

Created == Cardinality({w \in Workers : workers[w].pc # "unborn"})

Alive(w) == workers[w].pc \notin {"unborn", "done"}

\* is_response_active
IsResponseActive == is_active /\ ~stop_event

OrchState ==
    [is_active |-> is_active, stop_event |-> stop_event,
     monitoring_thread |-> monitoring_thread, created |-> Created,
     monitor_active |-> monitor_active]

\* start_automated_response without its "already active" return
StartAutomatedResponseAgain ==
    /\ ~stopping
    /\ IF ~monitor_active
       THEN /\ call' = [op |-> "start", result |-> FALSE, pre |-> OrchState]
            /\ UNCHANGED <<is_active, stop_event, monitoring_thread, workers>>
       ELSE /\ Created < MaxWorkers
            /\ stop_event' = FALSE
            /\ workers' = [workers EXCEPT ![Created + 1] = [Unborn EXCEPT !.pc = "check"]]
            /\ monitoring_thread' = Created + 1
            /\ is_active' = TRUE
            /\ call' = [op |-> "start", result |-> TRUE, pre |-> OrchState]
    /\ UNCHANGED <<monitor_active, response_threshold, response_actions, stats,
                   response_lock, stopping>>
    /\ UNCHANGED <<storeVars, scoreVars>>

\* start_automated_response beginning each run with an empty ledger and
\* counters at zero
StartAutomatedResponseFresh ==
    /\ ~stopping
    /\ IF is_active
       THEN /\ call' = [op |-> "start", result |-> TRUE, pre |-> OrchState]
            /\ UNCHANGED <<is_active, stop_event, monitoring_thread, workers,
                           response_actions, stats>>
       ELSE IF ~monitor_active
       THEN /\ call' = [op |-> "start", result |-> FALSE, pre |-> OrchState]
            /\ UNCHANGED <<is_active, stop_event, monitoring_thread, workers,
                           response_actions, stats>>
       ELSE /\ Created < MaxWorkers
            /\ stop_event' = FALSE
            /\ workers' = [workers EXCEPT ![Created + 1] = [Unborn EXCEPT !.pc = "check"]]
            /\ monitoring_thread' = Created + 1
            /\ is_active' = TRUE
            /\ response_actions' = <<>>
            /\ stats' = [total_threats_detected |-> 0, automatic_backups_created |-> 0,
                         automatic_recoveries_performed |-> 0,
                         response_success_rate |-> 0]
            /\ call' = [op |-> "start", result |-> TRUE, pre |-> OrchState]
    /\ UNCHANGED <<monitor_active, response_threshold, response_lock, stopping>>
    /\ UNCHANGED <<storeVars, scoreVars>>

\* start_automated_response
StartAutomatedResponse ==
    /\ ~stopping
    /\ IF is_active
       THEN /\ call' = [op |-> "start", result |-> TRUE, pre |-> OrchState]
            /\ UNCHANGED <<is_active, stop_event, monitoring_thread, workers>>
       ELSE IF ~monitor_active
       THEN /\ call' = [op |-> "start", result |-> FALSE, pre |-> OrchState]
            /\ UNCHANGED <<is_active, stop_event, monitoring_thread, workers>>
       ELSE /\ Created < MaxWorkers
            /\ stop_event' = FALSE
            /\ workers' = [workers EXCEPT ![Created + 1] = [Unborn EXCEPT !.pc = "check"]]
            /\ monitoring_thread' = Created + 1
            /\ is_active' = TRUE
            /\ call' = [op |-> "start", result |-> TRUE, pre |-> OrchState]
    /\ UNCHANGED <<monitor_active, response_threshold, response_actions, stats,
                   response_lock, stopping>>
    /\ UNCHANGED <<storeVars, scoreVars>>

\* stop_automated_response up to the join: an inactive system returns at once
StopAutomatedResponse ==
    /\ ~stopping
    /\ IF ~is_active
       THEN /\ call' = [op |-> "stop", result |-> TRUE, pre |-> OrchState]
            /\ UNCHANGED <<stop_event, stopping>>
       ELSE /\ stop_event' = TRUE
            /\ stopping' = TRUE
            /\ call' = [op |-> "join", pre |-> OrchState]
    /\ UNCHANGED <<monitor_active, is_active, monitoring_thread, response_threshold,
                   response_actions, stats, response_lock, workers>>
    /\ UNCHANGED <<storeVars, scoreVars>>

\* join(timeout=5.0) outlasts a worker that sleeps 2 seconds, is about to
\* test the flag or reads the ledger; it can expire on a worker that is
\* handling a threat (waiting for the lock, copying files) or that sleeps
\* 5 seconds after an error
JoinReturns ==
    \/ monitoring_thread = 0
    \/ ~Alive(monitoring_thread)
    \/ workers[monitoring_thread].pc \notin {"check", "sleep", "poll"}

\* stop_automated_response from the return of join
StopReturns ==
    /\ stopping
    /\ JoinReturns
    /\ is_active' = FALSE
    /\ stopping' = FALSE
    /\ call' = [op |-> "stop", result |-> TRUE, pre |-> call.pre]
    /\ UNCHANGED <<monitor_active, stop_event, monitoring_thread, response_threshold,
                   response_actions, stats, response_lock, workers>>
    /\ UNCHANGED <<storeVars, scoreVars>>

\* _log_response_action
Action(type, p, ok, score) ==
    [action_type |-> type, file_path |-> p, success |-> ok, threat_score |-> score]

Successes(log) == Cardinality({i \in DOMAIN log : log[i].success})

\* _update_response_statistics: successful / all * 100, kept in hundredths
SuccessRate(log, old) ==
    IF log = <<>> THEN old
    ELSE (2 * 10000 * Successes(log) + Len(log)) \div (2 * Len(log))

\* the loop test as "while True": the stop flag is never read
LoopTestIgnoresFlag(w) ==
    /\ workers[w].pc = "check"
    /\ workers' = [workers EXCEPT ![w].pc = "poll"]
    /\ UNCHANGED <<monitor_active, is_active, stop_event, monitoring_thread,
                   response_threshold, response_actions, stats, response_lock,
                   stopping, call>>
    /\ UNCHANGED <<storeVars, scoreVars>>

\* while not self.stop_event.is_set()
LoopTest(w) ==
    /\ workers[w].pc = "check"
    /\ workers' = [workers EXCEPT ![w].pc = IF stop_event THEN "done" ELSE "poll"]
    /\ UNCHANGED <<monitor_active, is_active, stop_event, monitoring_thread,
                   response_threshold, response_actions, stats, response_lock,
                   stopping, call>>
    /\ UNCHANGED <<storeVars, scoreVars>>

\* the loop when it handles a threat only if the pull has grown since the
\* last one it scored
PollUnseen(w) ==
    /\ workers[w].pc = "poll"
    /\ \E recent \in {GetRecentEvents(PollSeconds)} :
       \E det \in {AnalyzeEvents(recent, now, detection_threshold,
                                 time_window_seconds)} :
           IF recent = <<>>
           THEN /\ workers' = [workers EXCEPT ![w].pc = "sleep", ![w].iter = "idle",
                                              ![w].det = NoDetection, ![w].seen = 0]
                /\ detection' = detection
           ELSE /\ detection' = det
                /\ workers' = [workers EXCEPT
                      ![w].pc = IF det.is_threat /\ Len(recent) > workers[w].seen
                                THEN "handle" ELSE "sleep",
                      ![w].iter = IF det.is_threat THEN "threat" ELSE "quiet",
                      ![w].det = det,
                      ![w].firstId = nextId,
                      ![w].seen = Len(recent)]
    /\ UNCHANGED <<monitor_active, is_active, stop_event, monitoring_thread,
                   response_threshold, response_actions, stats, response_lock,
                   stopping, call>>
    /\ UNCHANGED <<storeVars, recent_events, detection_threshold,
                   time_window_seconds, callbacks, recorded>>

\* the loop handing the whole ledger to analyze_events
PollWholeLedger(w) ==
    /\ workers[w].pc = "poll"
    /\ \E recent \in {recent_events} :
       \E det \in {AnalyzeEvents(recent, now, detection_threshold,
                                 time_window_seconds)} :
           IF recent = <<>>
           THEN /\ workers' = [workers EXCEPT ![w].pc = "sleep", ![w].iter = "idle",
                                              ![w].det = NoDetection, ![w].seen = 0]
                /\ detection' = detection
           ELSE /\ detection' = det
                /\ workers' = [workers EXCEPT
                      ![w].pc = IF det.is_threat THEN "handle" ELSE "sleep",
                      ![w].iter = IF det.is_threat THEN "threat" ELSE "quiet",
                      ![w].det = det,
                      ![w].firstId = nextId,
                      ![w].seen = Len(recent)]
    /\ UNCHANGED <<monitor_active, is_active, stop_event, monitoring_thread,
                   response_threshold, response_actions, stats, response_lock,
                   stopping, call>>
    /\ UNCHANGED <<storeVars, recent_events, detection_threshold,
                   time_window_seconds, callbacks, recorded>>

\* get_recent_events(seconds=10), and analyze_events when there are any
Poll(w) ==
    /\ workers[w].pc = "poll"
    /\ \E recent \in {GetRecentEvents(PollSeconds)} :
       \E det \in {AnalyzeEvents(recent, now, detection_threshold,
                                 time_window_seconds)} :
           IF recent = <<>>
           THEN /\ workers' = [workers EXCEPT ![w].pc = "sleep", ![w].iter = "idle",
                                              ![w].det = NoDetection, ![w].seen = 0]
                /\ detection' = detection
           ELSE /\ detection' = det
                /\ workers' = [workers EXCEPT
                      ![w].pc = IF det.is_threat THEN "handle" ELSE "sleep",
                      ![w].iter = IF det.is_threat THEN "threat" ELSE "quiet",
                      ![w].det = det,
                      ![w].firstId = nextId,
                      ![w].seen = Len(recent)]
    /\ UNCHANGED <<monitor_active, is_active, stop_event, monitoring_thread,
                   response_threshold, response_actions, stats, response_lock,
                   stopping, call>>
    /\ UNCHANGED <<storeVars, recent_events, detection_threshold,
                   time_window_seconds, callbacks, recorded>>

Perms(S) ==
    {s \in [1..Cardinality(S) -> S] : \A i, j \in DOMAIN s : i # j => s[i] # s[j]}

\* _handle_threat_detection up to the first backup: the lock is taken, the
\* threat counted and the alert logged; list(set(...)) fixed the file order
HandleThreatDetection(w, order) ==
    /\ workers[w].pc = "handle"
    /\ response_lock = 0
    /\ order \in Perms(workers[w].det.affected_files)
    /\ response_lock' = w
    /\ stats' = [stats EXCEPT !.total_threats_detected = @ + 1]
    /\ response_actions' = Append(response_actions,
           Action("alert", <<"system">>, TRUE, workers[w].det.threat_score))
    /\ workers' = [workers EXCEPT ![w].pc = "backup", ![w].files = order,
                                  ![w].idx = 1, ![w].results = <<>>,
                                  ![w].logged = Len(response_actions)]
    /\ UNCHANGED <<monitor_active, is_active, stop_event, monitoring_thread,
                   response_threshold, stopping, call>>
    /\ UNCHANGED <<storeVars, scoreVars>>

\* _create_emergency_backups without the os.path.exists test: a missing file
\* goes to create_backup, which returns None, and a failed backup is logged
EmergencyBackupAny(w) ==
    /\ workers[w].pc = "backup"
    /\ workers[w].idx <= Len(workers[w].files)
    /\ LET f     == workers[w].files[workers[w].idx]
           score == workers[w].det.threat_score
       IN  /\ CreateBackup(f, NoRace)
           /\ response_actions' = Append(response_actions,
                  Action("backup", f, ret'.ok, score))
           /\ stats' = [stats EXCEPT !.automatic_backups_created =
                           IF ret'.ok THEN @ + 1 ELSE @]
    /\ workers' = [workers EXCEPT ![w].idx = @ + 1]
    /\ UNCHANGED <<monitor_active, is_active, stop_event, monitoring_thread,
                   response_threshold, response_lock, stopping, call>>
    /\ UNCHANGED scoreVars

\* _create_emergency_backups, one file of the loop
EmergencyBackup(w) ==
    /\ workers[w].pc = "backup"
    /\ workers[w].idx <= Len(workers[w].files)
    /\ LET f     == workers[w].files[workers[w].idx]
           score == workers[w].det.threat_score
       IN  IF Exists(disk, f)
           THEN /\ CreateBackup(f, NoRace)
                /\ response_actions' = Append(response_actions,
                       Action("backup", f, ret'.ok, score))
                /\ stats' = [stats EXCEPT !.automatic_backups_created =
                                IF ret'.ok THEN @ + 1 ELSE @]
           ELSE /\ UNCHANGED storeVars
                /\ UNCHANGED <<response_actions, stats>>
    /\ workers' = [workers EXCEPT ![w].idx = @ + 1]
    /\ UNCHANGED <<monitor_active, is_active, stop_event, monitoring_thread,
                   response_threshold, response_lock, stopping, call>>
    /\ UNCHANGED scoreVars

\* _handle_threat_detection calling _trigger_automated_recovery whatever the score
RecoveryGateOpen(w) ==
    /\ workers[w].pc = "backup"
    /\ workers[w].idx > Len(workers[w].files)
    /\ workers' = [workers EXCEPT ![w].pc = "recover", ![w].idx = 1]
    /\ UNCHANGED <<monitor_active, is_active, stop_event, monitoring_thread,
                   response_threshold, response_actions, stats, response_lock,
                   stopping, call>>
    /\ UNCHANGED <<storeVars, scoreVars>>

\* if detection_result.threat_score >= self.response_threshold
RecoveryGate(w) ==
    /\ workers[w].pc = "backup"
    /\ workers[w].idx > Len(workers[w].files)
    /\ IF workers[w].det.threat_score >= response_threshold
       THEN /\ workers' = [workers EXCEPT ![w].pc = "recover", ![w].idx = 1]
            /\ UNCHANGED response_lock
       ELSE /\ workers' = [workers EXCEPT ![w].pc = "sleep", ![w].iter = "backed up"]
            /\ response_lock' = 0
    /\ UNCHANGED <<monitor_active, is_active, stop_event, monitoring_thread,
                   response_threshold, response_actions, stats, stopping, call>>
    /\ UNCHANGED <<storeVars, scoreVars>>

\* restore_multiple, one file of the loop
RestoreNext(w) ==
    /\ workers[w].pc = "recover"
    /\ workers[w].idx <= Len(workers[w].files)
    /\ RestoreFile(workers[w].files[workers[w].idx], TRUE)
    /\ workers' = [workers EXCEPT ![w].idx = @ + 1,
                                  ![w].results = Append(@, ret'.result)]
    /\ UNCHANGED <<monitor_active, is_active, stop_event, monitoring_thread,
                   response_threshold, response_actions, stats, response_lock,
                   stopping, call>>
    /\ UNCHANGED scoreVars

RecoveryActions(results, score) ==
    [i \in DOMAIN results |->
        Action("recovery", results[i].file_path, results[i].success, score)]

\* _trigger_automated_recovery after restore_multiple: one action per result,
\* the success rate recomputed, the lock released
LogRecovery(w) ==
    /\ workers[w].pc = "recover"
    /\ workers[w].idx > Len(workers[w].files)
    /\ LET log == response_actions
                  \o RecoveryActions(workers[w].results, workers[w].det.threat_score)
       IN  /\ response_actions' = log
           /\ stats' = [stats EXCEPT
                  !.automatic_recoveries_performed =
                      @ + Successes(RecoveryActions(workers[w].results, 0)),
                  !.response_success_rate = SuccessRate(log, @)]
    /\ response_lock' = 0
    /\ workers' = [workers EXCEPT ![w].pc = "sleep", ![w].iter = "recovered"]
    /\ UNCHANGED <<monitor_active, is_active, stop_event, monitoring_thread,
                   response_threshold, stopping, call>>
    /\ UNCHANGED <<storeVars, scoreVars>>

\* an exception that leaves the handling through a lock taken with acquire()
\* and no finally: the lock stays with the failed worker
FailKeepsLock(w) ==
    /\ workers[w].pc \in {"poll", "backup", "recover"}
    /\ workers' = [workers EXCEPT
           ![w].pc = "error sleep",
           ![w].iter = IF workers[w].pc = "poll" THEN "failed poll"
                       ELSE "failed handling"]
    /\ UNCHANGED <<monitor_active, is_active, stop_event, monitoring_thread,
                   response_threshold, response_actions, stats, response_lock,
                   stopping, call>>
    /\ UNCHANGED <<storeVars, scoreVars>>

\* an exception raised in the body of the loop, while the ledger is read and
\* scored or inside _handle_threat_detection: "with self.response_lock"
\* releases the lock on the way out, "except Exception" catches
Fail(w) ==
    /\ workers[w].pc \in {"poll", "backup", "recover"}
    /\ response_lock' = IF response_lock = w THEN 0 ELSE response_lock
    /\ workers' = [workers EXCEPT
           ![w].pc = "error sleep",
           ![w].iter = IF workers[w].pc = "poll" THEN "failed poll"
                       ELSE "failed handling"]
    /\ UNCHANGED <<monitor_active, is_active, stop_event, monitoring_thread,
                   response_threshold, response_actions, stats, stopping, call>>
    /\ UNCHANGED <<storeVars, scoreVars>>

\* logger.error(...); time.sleep(5)
ErrorSleep(w) ==
    /\ workers[w].pc = "error sleep"
    /\ workers' = [workers EXCEPT ![w].pc = "check"]
    /\ UNCHANGED <<monitor_active, is_active, stop_event, monitoring_thread,
                   response_threshold, response_actions, stats, response_lock,
                   stopping, call>>
    /\ UNCHANGED <<storeVars, scoreVars>>

\* time.sleep(2)
Sleep(w) ==
    /\ workers[w].pc = "sleep"
    /\ workers' = [workers EXCEPT ![w].pc = "check"]
    /\ UNCHANGED <<monitor_active, is_active, stop_event, monitoring_thread,
                   response_threshold, response_actions, stats, response_lock,
                   stopping, call>>
    /\ UNCHANGED <<storeVars, scoreVars>>

\* get_response_statistics()['response_success_rate_percent'], in hundredths
ResponseSuccessRatePercent == SuccessRate(response_actions, stats.response_success_rate)

\* FileSystemMonitor.start_monitoring / stop_monitoring
SetMonitoring(on) ==
    /\ monitor_active # on
    /\ monitor_active' = on
    /\ UNCHANGED <<is_active, stop_event, monitoring_thread, response_threshold,
                   response_actions, stats, response_lock, workers, stopping, call>>
    /\ UNCHANGED <<storeVars, scoreVars>>

-----------------------------------------------------------------------------
(* Specifications: each drives one part of the program and leaves the      *)
(* other parts in their state after construction                           *)

DefaultWindow == 10

DefaultThreshold == 5

DefaultRetention == 5

DefaultResponseThreshold == 50

NoStats ==
    [total_attempts |-> 0, successful_recoveries |-> 0,
     failed_recoveries |-> 0, files_recovered |-> <<>>]

StoreIdle ==
    /\ now = 0
    /\ disk = <<>>
    /\ bdisk = <<>>
    /\ retention_count = DefaultRetention
    /\ backup_records = <<>>
    /\ nextId = 1
    /\ recovery_stats = NoStats
    /\ ret = NoRet
    /\ lastBackup = <<>>
    /\ extDeleted = FALSE

\* no add_file_event call is running
LedgerIdle ==
    /\ callbacks = [t \in Callbacks |-> [pc |-> "idle", kept |-> <<>>]]
    /\ recorded = <<>>

ScoreIdle ==
    /\ LedgerIdle
    /\ recent_events = <<>>
    /\ detection_threshold = DefaultThreshold
    /\ time_window_seconds = DefaultWindow
    /\ detection = NoDetection

OrchIdle ==
    /\ is_active = FALSE
    /\ stop_event = FALSE
    /\ monitoring_thread = 0
    /\ response_actions = <<>>
    /\ stats = [total_threats_detected |-> 0, automatic_backups_created |-> 0,
                automatic_recoveries_performed |-> 0, response_success_rate |-> 0]
    /\ response_lock = 0
    /\ workers = [w \in Workers |-> Unborn]
    /\ stopping = FALSE
    /\ call = [op |-> "none"]

-----------------------------------------------------------------------------
(* The snapshot store and the recovery engine, driven through their API *)

InitStore ==
    /\ now = 0
    /\ disk \in [StorePaths -> {<<1, "x">>}]
    /\ bdisk = <<>>
    /\ retention_count \in 1..MaxRetention
    /\ backup_records = <<>>
    /\ nextId = 1
    /\ recovery_stats = NoStats
    /\ ret = NoRet
    /\ lastBackup = [p \in StorePaths |-> NoFile]
    /\ extDeleted = FALSE
    /\ ScoreIdle
    /\ OrchIdle
    /\ monitor_active = FALSE
    /\ response_threshold = DefaultResponseThreshold

StoreCreateBackup ==
    /\ nextId <= MaxBackups
    /\ \E p \in DOMAIN disk : CreateBackup(p, NoRace)
    /\ UNCHANGED <<scoreVars, orchVars>>

StoreRestoreFile ==
    /\ recovery_stats.total_attempts < MaxRestores
    /\ \E p \in DOMAIN disk : RestoreFile(p, TRUE)
    /\ UNCHANGED <<scoreVars, orchVars>>

StoreTick == Tick /\ UNCHANGED <<scoreVars, orchVars>>

StoreWriteFile ==
    /\ \E p \in DOMAIN disk, c \in Contents : WriteFile(p, c)
    /\ UNCHANGED <<scoreVars, orchVars>>

StoreDeleteFile ==
    /\ \E p \in DOMAIN disk : DeleteFile(p)
    /\ UNCHANGED <<scoreVars, orchVars>>

StoreDeleteBackupFile ==
    /\ \E b \in DOMAIN bdisk : DeleteBackupFile(b)
    /\ UNCHANGED <<scoreVars, orchVars>>

NextStore ==
    \/ StoreCreateBackup
    \/ StoreRestoreFile
    \/ StoreTick
    \/ StoreWriteFile
    \/ StoreDeleteFile
    \/ StoreDeleteBackupFile

SpecStore == InitStore /\ [][NextStore]_vars

-----------------------------------------------------------------------------
(* The scorer applied to bounded event batches *)

ScorePaths == {<<"d1", "a", ".txt">>, <<"d1", "b", ".LOCKED">>}

Event(kind, p, z) == [file_path |-> p, event_type |-> kind, file_size |-> z]

\* the events a batch is made of, without their timestamps
ScoreEvents ==
    {Event("modified", p, z) : p \in ScorePaths, z \in {100, 130}}
    \cup {Event("created", <<"d1", "b", ".LOCKED">>, 100),
          Event("moved", <<"d1", "b", ".LOCKED">>, 100)}

SeqsUpTo(S, n) == UNION {[1..k -> S] : k \in 0..n}

\* events arrive in time order: the first `stale` events of the batch are
\* exactly at the cutoff (outside the window), the others follow them
Stamped(s, stale, cutoff) ==
    [i \in DOMAIN s |->
        [timestamp  |-> IF i <= stale THEN cutoff ELSE cutoff + i - stale,
         file_path  |-> s[i].file_path,
         event_type |-> s[i].event_type,
         file_size  |-> s[i].file_size]]

InitScore ==
    /\ StoreIdle
    /\ OrchIdle
    /\ monitor_active = FALSE
    /\ response_threshold = DefaultResponseThreshold
    /\ time_window_seconds = DefaultWindow
    /\ detection_threshold \in 1..MaxThreshold
    /\ \E s \in SeqsUpTo(ScoreEvents, MaxBatch), stale \in 0..MaxStale :
           recent_events = Stamped(s, stale, 0)
    /\ detection = NoDetection
    /\ LedgerIdle

\* the call is made DefaultWindow seconds after the cutoff
ScoreAnalyze ==
    /\ now' = DefaultWindow * TicksPerSec
    /\ Analyze
    /\ UNCHANGED <<disk, bdisk, retention_count, backup_records, nextId,
                   recovery_stats, ret, lastBackup, extDeleted>>
    /\ UNCHANGED orchVars

NextScore == ScoreAnalyze

SpecScore == InitScore /\ [][NextScore]_vars

-----------------------------------------------------------------------------
(* The orchestrator over a ledger that holds one burst of events *)

PathA == <<"d1", "a", ".txt">>

PathB == <<"d1", "b", ".LOCKED">>

\* the bursts the ledger may hold, with their scores under a detection
\* threshold of 1 and of 2: none, one plain write (30, 0), three plain writes
\* (40, 35), a growing file (60, 55), a suspicious name (80, 50), a plain and
\* a suspicious name (85, 80)
OrchBatches ==
    {<<>>,
     <<Event("modified", PathA, 100)>>,
     <<Event("modified", PathA, 100), Event("modified", PathA, 100),
       Event("modified", PathA, 100)>>,
     <<Event("modified", PathA, 100), Event("modified", PathA, 130)>>,
     <<Event("modified", PathB, 100)>>,
     <<Event("modified", PathA, 100), Event("modified", PathB, 100)>>}

Clean == <<100, "doc">>

\* the record and the file of a backup of PathA taken at time 0, before the burst
PriorRecord ==
    [original_path |-> PathA, backup_path |-> BackupPath(PathA, 0),
     timestamp |-> 0, file_size |-> Size(Clean), id |-> 1]

OrchPaths == {PathA, PathB}

ResponseThresholds == {40, 80}

Encrypted == <<130, "enc">>

InitOrch ==
    /\ now = PollSeconds * TicksPerSec
    /\ disk \in [OrchPaths -> {Encrypted}]
    /\ bdisk = (PriorRecord.backup_path :> Clean)
    /\ retention_count \in 1..MaxRetention
    /\ backup_records = (PathA :> <<PriorRecord>>)
    /\ nextId = 2
    /\ recovery_stats = NoStats
    /\ ret = NoRet
    /\ lastBackup = [p \in OrchPaths |-> IF p = PathA THEN Clean ELSE NoFile]
    /\ extDeleted = FALSE
    /\ \E s \in OrchBatches : recent_events = Stamped(s, 0, 0)
    /\ LedgerIdle
    /\ detection_threshold \in 1..MaxThreshold
    /\ time_window_seconds = DefaultWindow
    /\ detection = NoDetection
    /\ OrchIdle
    /\ monitor_active = FALSE
    /\ response_threshold \in ResponseThresholds

OrchStart == StartAutomatedResponse

OrchStop == StopAutomatedResponse

OrchStopReturns == StopReturns

OrchStartMonitoring == SetMonitoring(TRUE)

OrchLoopTest == \E w \in Workers : LoopTest(w)

OrchPoll ==
    /\ stats.total_threats_detected + Cardinality({w \in Workers : workers[w].pc = "handle"})
          < MaxThreats
    /\ \E w \in Workers : Poll(w)

OrchHandle ==
    \E w \in Workers : \E order \in Perms(workers[w].det.affected_files) :
        HandleThreatDetection(w, order)

OrchEmergencyBackup == \E w \in Workers : EmergencyBackup(w)

OrchRecoveryGate == \E w \in Workers : RecoveryGate(w)

OrchRestoreNext == \E w \in Workers : RestoreNext(w)

OrchLogRecovery == \E w \in Workers : LogRecovery(w)

OrchSleep == \E w \in Workers : Sleep(w)

NextOrch ==
    \/ OrchStart
    \/ OrchStop
    \/ OrchStopReturns
    \/ OrchStartMonitoring
    \/ OrchLoopTest
    \/ OrchPoll
    \/ OrchHandle
    \/ OrchEmergencyBackup
    \/ OrchRecoveryGate
    \/ OrchRestoreNext
    \/ OrchLogRecovery
    \/ OrchSleep

SpecOrch == InitOrch /\ [][NextOrch]_vars

-----------------------------------------------------------------------------
(* The end-to-end scenario: a ransomware gives six watched files the        *)
(* .encrypted extension while the orchestrator runs with the default        *)
(* thresholds                                                               *)

E2ENames == <<"f1", "f2", "f3", "f4", "f5", "f6">>

E2ERenamedNames == <<"f1.txt", "f2.txt", "f3.txt", "f4.txt", "f5.txt", "f6.txt">>

E2EFiles == DOMAIN E2ENames

Original(i) == <<"docs", E2ENames[i], ".txt">>

\* file_path + '.encrypted'
Renamed(i) == <<"docs", E2ERenamedNames[i], ".encrypted">>

E2EPaths == {Original(i) : i \in E2EFiles} \cup {Renamed(i) : i \in E2EFiles}

Rewritten == <<160, "note">>

\* One file of the attack, the files taken in order: the content may be
\* overwritten first (on_modified records the source path), then the file is
\* moved to its name with the extension (on_moved records the destination).
ApplyExtension(i, overwrite) ==
    /\ monitor_active
    /\ Exists(disk, Original(i))
    /\ \A j \in 1..(i - 1) : ~Exists(disk, Original(j))
    /\ LET written == IF overwrite THEN [disk EXCEPT ![Original(i)] = Encrypted]
                      ELSE disk
           moved   == [written EXCEPT ![Renamed(i)] = written[Original(i)],
                                      ![Original(i)] = NoFile]
           ledger  == IF overwrite
                      THEN AddFileEvent(recent_events, "modified", Original(i), written)
                      ELSE recent_events
       IN  /\ disk' = moved
           /\ recent_events' = AddFileEvent(ledger, "moved", Renamed(i), moved)
    /\ ret' = NoRet
    /\ UNCHANGED <<now, bdisk, retention_count, backup_records, nextId,
                   recovery_stats, lastBackup, extDeleted>>
    /\ UNCHANGED <<detection_threshold, time_window_seconds, detection,
                   callbacks, recorded>>
    /\ UNCHANGED orchVars

\* a file that has the extension is written again (on_modified records it)
RewriteRenamed(i) ==
    /\ monitor_active
    /\ Exists(disk, Renamed(i))
    /\ WriteFile(Renamed(i), Rewritten)
    /\ recent_events' = AddFileEvent(recent_events, "modified", Renamed(i), disk')
    /\ UNCHANGED <<detection_threshold, time_window_seconds, detection,
                   callbacks, recorded>>
    /\ UNCHANGED orchVars

Rewrites ==
    Cardinality({k \in DOMAIN recent_events :
                    /\ recent_events[k].event_type = "modified"
                    /\ IsSuspicious(recent_events[k].file_path)})

\* the files of a set in the order the attack took them
AttackOrder(S) ==
    LET all == [k \in 1..(2 * Len(E2ENames)) |->
                   IF k <= Len(E2ENames) THEN Original(k)
                   ELSE Renamed(k - Len(E2ENames))]
        In(p) == p \in S
    IN  SelectSeq(all, In)

InitE2E ==
    /\ now = 0
    /\ disk = [p \in E2EPaths |->
                  IF \E i \in E2EFiles : p = Original(i) THEN Clean ELSE NoFile]
    /\ bdisk = <<>>
    /\ retention_count = DefaultRetention
    /\ backup_records = <<>>
    /\ nextId = 1
    /\ recovery_stats = NoStats
    /\ ret = NoRet
    /\ lastBackup = [p \in E2EPaths |-> NoFile]
    /\ extDeleted = FALSE
    /\ ScoreIdle
    /\ OrchIdle
    /\ monitor_active = TRUE
    /\ response_threshold = DefaultResponseThreshold

\* the attack either overwrites every file before renaming it or none
E2EApplyExtension ==
    \E i \in E2EFiles, overwrite \in BOOLEAN :
        /\ recent_events # <<>> =>
               overwrite = (recent_events[1].event_type = "modified")
        /\ ApplyExtension(i, overwrite)

E2ERewrite ==
    /\ Rewrites < MaxRewrites
    /\ \E i \in E2EFiles : RewriteRenamed(i)

\* the files are handled in the order of the attack
E2EHandle ==
    \E w \in Workers :
        HandleThreatDetection(w, AttackOrder(workers[w].det.affected_files))

NextE2E ==
    \/ OrchStart
    \/ E2EApplyExtension
    \/ E2ERewrite
    \/ OrchLoopTest
    \/ OrchPoll
    \/ E2EHandle
    \/ OrchEmergencyBackup
    \/ OrchRecoveryGate
    \/ OrchRestoreNext
    \/ OrchLogRecovery
    \/ OrchSleep

SpecE2E == InitE2E /\ [][NextE2E]_vars

-----------------------------------------------------------------------------
(* Claims about the snapshot store and the recovery engine *)

AllRecords == UNION {Range(backup_records[p]) : p \in DOMAIN backup_records}

Ids(s) == {r.id : r \in Range(s)}

\* the records a create_backup call dropped from the history of its path
Evicted == {r \in Range(ret.old) \cup {ret.record} :
               r.id \notin Ids(backup_records[ret.path])}

\* C1: every path has at most retention_count records, and a create_backup
\* that finds retention_count records evicts exactly the oldest of them by
\* timestamp and retains the record it created.
C1_RetentionEvictsOldest ==
    /\ \A p \in DOMAIN backup_records : Len(backup_records[p]) <= retention_count
    /\ (ret.op = "create_backup" /\ ret.ok /\ Len(ret.old) = retention_count) =>
          /\ Cardinality(Evicted) = 1
          /\ \A e \in Evicted : \A r \in Range(ret.old) : e.timestamp <= r.timestamp
          /\ ret.record.id \in Ids(backup_records[ret.path])

\* C2: as long as no backup file is deleted from outside, the files in the
\* backup directory are exactly the files of the retained records.
C2_FilesMatchRecords ==
    ~extDeleted => DOMAIN bdisk = {r.backup_path : r \in AllRecords}

\* C3: a restore_file of a path that follows a successful create_backup of
\* that path succeeds and gives the file the content that was backed up.
C3_RoundTrip ==
    (/\ ret.op = "restore_file"
     /\ lastBackup[ret.path] # NoFile
     /\ ~extDeleted)
    => /\ ret.result.success
       /\ disk[ret.path] = lastBackup[ret.path]

Restorable(p) == {r \in Range(ListBackups(p)) : AttemptOk(r)}

UsedRecord(p, id) == CHOOSE r \in Range(ListBackups(p)) : r.id = id

C6_ScoreIsCappedSum ==
    /\ detection.threat_score \in 0..100
    /\ detection.modification_score \in 0..50
    /\ detection.extension_score \in 0..60
    /\ detection.size_score \in 0..30
    /\ detection.threat_score =
          Min(100, detection.modification_score + detection.extension_score
                   + detection.size_score)

\* a batch whose three sub-scores are all at their caps, 140 in sum
C6_Witness ==
    /\ detection.modification_score = 50
    /\ detection.extension_score = 60
    /\ detection.size_score = 30
    /\ detection.threat_score = 100

\* C7: is_threat is true exactly when the returned score is at least 50.
C7_ThreatIffScoreAtLeast50 ==
    detection.is_threat <=> detection.threat_score >= 50

\* a threat whose uncapped sum is over 100
C7_Witness ==
    /\ detection.is_threat
    /\ detection.modification_score + detection.extension_score
       + detection.size_score > 100

-----------------------------------------------------------------------------
(* Claims about the orchestrator *)

\* C5: every file an automated recovery restores is restored from a snapshot
\* taken before the threat was detected (the records that existed when the
\* worker polled have an id below firstId).
C5_RestoresPriorSnapshot ==
    \A w \in Workers : \A i \in DOMAIN workers[w].results :
        workers[w].results[i].success =>
            workers[w].results[i].used < workers[w].firstId

\* C8: an iteration reaches restore_multiple iff its verdict is a threat
\* (score >= 50) and the score is at least response_threshold; a threat
\* below the threshold leaves the alert and the emergency backups in the log
\* and no recovery action.
C8_TwoGates ==
    \A w \in Workers :
        LET wk == workers[w]
            at == wk.logged + 1 + Len(wk.files)
        IN  /\ (wk.pc = "recover" \/ wk.iter = "recovered") =>
                  /\ wk.det.is_threat
                  /\ wk.det.threat_score >= 50
                  /\ wk.det.threat_score >= response_threshold
            /\ (wk.pc = "sleep" /\ wk.iter # "none") =>
                  (wk.iter = "recovered"
                      <=> (wk.det.is_threat /\ wk.det.threat_score >= response_threshold))
            /\ (wk.pc = "sleep" /\ wk.iter = "backed up") =>
                  /\ wk.det.is_threat
                  /\ wk.det.threat_score < response_threshold
                  /\ response_actions[wk.logged + 1].action_type = "alert"
                  /\ \A i \in 1..Len(wk.files) :
                        response_actions[wk.logged + 1 + i] =
                            Action("backup", wk.files[i], TRUE, wk.det.threat_score)
                  /\ Len(response_actions) > at =>
                        response_actions[at + 1].action_type # "recovery"

\* a threat scored 55 under a response threshold of 80: backed up, not recovered
C8_Witness ==
    \E w \in Workers :
        /\ workers[w].pc = "sleep"
        /\ workers[w].iter = "backed up"
        /\ workers[w].det.threat_score = 55
        /\ response_threshold = 80
        /\ stats.automatic_backups_created = 1

\* C10: a start while the monitor is inactive returns False, leaves the
\* system idle and creates no worker; a start while running returns True and
\* creates no worker; a stop while idle returns True and changes nothing;
\* is_response_active is true after a successful start and false after a stop.
C10_Lifecycle ==
    /\ (call.op = "start" /\ ~call.pre.is_active /\ ~call.pre.monitor_active) =>
          /\ call.result = FALSE
          /\ ~is_active
          /\ Created = call.pre.created
          /\ monitoring_thread = call.pre.monitoring_thread
    /\ (call.op = "start" /\ call.pre.is_active) =>
          /\ call.result = TRUE
          /\ Created = call.pre.created
          /\ monitoring_thread = call.pre.monitoring_thread
    /\ (call.op = "start" /\ ~call.pre.is_active /\ call.pre.monitor_active) =>
          /\ call.result = TRUE
          /\ Created = call.pre.created + 1
    /\ (call.op = "start" /\ call.result) => IsResponseActive
    /\ (call.op = "stop" /\ ~call.pre.is_active) =>
          /\ is_active = call.pre.is_active
          /\ stop_event = call.pre.stop_event
          /\ Created = call.pre.created
          /\ monitoring_thread = call.pre.monitoring_thread
    /\ call.op = "stop" => (call.result = TRUE /\ ~IsResponseActive)

\* a start that finds the system running, after a stop and a restart
C10_Witness ==
    /\ call.op = "start"
    /\ call.pre.is_active
    /\ call.pre.created = 2
    /\ call.result = TRUE
    /\ IsResponseActive

-----------------------------------------------------------------------------
(* Claims about the end-to-end scenario *)

\* the events a worker had before it at its last poll
Polled(w) == SubSeq(recent_events, 1, workers[w].seen)

\* the worker has finished an iteration whose poll saw the six files get the
\* extension and no other activity
AttackSeen(w) ==
    /\ workers[w].pc = "sleep"
    /\ {e.file_path : e \in {x \in Range(Polled(w)) : x.event_type = "moved"}}
           = {Renamed(i) : i \in E2EFiles}
    /\ \A e \in Range(Polled(w)) :
           e.event_type = "moved" \/ ~IsSuspicious(e.file_path)

\* C9: with detection_threshold 5 and response_threshold 50, six files
\* getting the .encrypted extension give a verdict with rate score 35,
\* extension score 60, total 95 and is_threat; the six files are backed up
\* and restored, and the success rate is 100 %.
C9_EndToEnd ==
    \A w \in Workers :
        AttackSeen(w) =>
            /\ workers[w].det.modification_score = 35
            /\ workers[w].det.extension_score = 60
            /\ workers[w].det.threat_score = 95
            /\ workers[w].det.is_threat
            /\ workers[w].iter = "recovered"
            /\ stats.automatic_backups_created = 6
            /\ stats.automatic_recoveries_performed = 6
            /\ ResponseSuccessRatePercent = 10000

-----------------------------------------------------------------------------
(* Claims about the worker threads *)

\* C11: at every moment at most one thread created by this system is
\* running _monitoring_loop.
C11_AtMostOneWorker ==
    Cardinality({w \in Workers : Alive(w)}) <= 1

-----------------------------------------------------------------------------
(* The orchestrator with a clock that runs and threads that are scheduled: *)
(* the burst leaves the 10-second window of the worker's reads after a     *)
(* while, and every thread that can take a step takes one in the end       *)

\* the time that datetime.now() reads moves on by a number of seconds
Elapse(seconds) ==
    /\ now' = now + seconds * TicksPerSec
    /\ UNCHANGED <<disk, bdisk, retention_count, backup_records, nextId,
                   recovery_stats, ret, lastBackup, extDeleted>>
    /\ UNCHANGED <<scoreVars, orchVars>>

StopElapse ==
    /\ now < 2 * PollSeconds * TicksPerSec
    /\ Elapse(PollSeconds)

\* one step of the thread w in _monitoring_loop
WorkerStep(w) ==
    \/ LoopTest(w)
    \/ Poll(w)
    \/ \E order \in Perms(workers[w].det.affected_files) : HandleThreatDetection(w, order)
    \/ EmergencyBackup(w)
    \/ RecoveryGate(w)
    \/ RestoreNext(w)
    \/ LogRecovery(w)
    \/ Sleep(w)

\* a worker reads the ledger again and again: the threats it may find are
\* bounded, its reads of a ledger whose burst is out of the window are not
MayPoll ==
    \/ stats.total_threats_detected
          + Cardinality({w \in Workers : workers[w].pc = "handle"}) < MaxThreats
    \/ GetRecentEvents(PollSeconds) = <<>>

StopPoll ==
    /\ MayPoll
    /\ \E w \in Workers : Poll(w)

NextStop ==
    \/ OrchStart
    \/ OrchStop
    \/ OrchStopReturns
    \/ OrchStartMonitoring
    \/ OrchLoopTest
    \/ StopPoll
    \/ OrchHandle
    \/ OrchEmergencyBackup
    \/ OrchRecoveryGate
    \/ OrchRestoreNext
    \/ OrchLogRecovery
    \/ OrchSleep
    \/ StopElapse

\* WorkerStep(w) can be taken
WorkerReady(w) ==
    \/ workers[w].pc \in {"check", "backup", "recover", "sleep"}
    \/ workers[w].pc = "poll" /\ MayPoll
    \/ workers[w].pc = "handle" /\ response_lock = 0

\* WorkerStep(w) is taken: the running thread w changes its position
WorkerMoves(w) == workers[w].pc # "unborn" /\ workers'[w] # workers[w]

\* threads are scheduled by the operating system and time passes: weak
\* fairness of WorkerStep(w), with WorkerReady(w) for ENABLED <<WorkerStep(w)>>_vars
\* and WorkerMoves(w) for the step itself
StopFairness ==
    /\ \A w \in Workers : ([]<>(~WorkerReady(w)) \/ []<><<WorkerMoves(w)>>_vars)
    /\ WF_vars(StopElapse)

\* the largest retention and detection threshold of InitOrch
InitStop ==
    /\ InitOrch
    /\ retention_count = MaxRetention
    /\ detection_threshold = MaxThreshold

SpecStop == InitStop /\ [][NextStop]_vars /\ StopFairness

\* C12: a worker starts an iteration only on a clear flag and leaves its loop
\* at the first test that finds the flag set; it terminates only from the
\* loop test, never from inside an iteration, and it does not run again; no
\* worker stays alive for ever under a stop flag that stays set (a flag set
\* by stop stays set exactly when no later start clears it).
C12_CooperativeStop ==
    /\ [][\A w \in Workers :
            /\ (workers[w].pc = "check" /\ workers'[w].pc # "check")
                  => workers'[w].pc = IF stop_event THEN "done" ELSE "poll"
            /\ (workers[w].pc # "done" /\ workers'[w].pc = "done")
                  => workers[w].pc = "check"
            /\ workers[w].pc = "done" => workers'[w].pc = "done"]_vars
    /\ \A w \in Workers : []<>(~stop_event \/ ~Alive(w))

C12_Witness ==
    /\ stop_event
    /\ ~is_active
    /\ call.op = "stop"
    /\ \E w \in Workers : workers[w].pc = "done" /\ workers[w].iter = "recovered"

-----------------------------------------------------------------------------
(* The threat handling statement by statement, beside a thread that reads  *)
(* the statistics: a counter is incremented before the action it counts is *)
(* appended to response_actions                                            *)

\* self.stats['total_threats_detected'] += 1 outside any lock
CountThreatUnlocked(w) ==
    /\ workers[w].pc = "handle"
    /\ stats' = [stats EXCEPT !.total_threats_detected = @ + 1]
    /\ workers' = [workers EXCEPT ![w].pc = "alert"]
    /\ UNCHANGED <<monitor_active, is_active, stop_event, monitoring_thread,
                   response_threshold, response_actions, response_lock, stopping,
                   call>>
    /\ UNCHANGED <<storeVars, scoreVars>>

\* the handling entered through a lock that a second thread can take again
CountThreatReentrant(w) ==
    /\ workers[w].pc = "handle"
    /\ response_lock' = w
    /\ stats' = [stats EXCEPT !.total_threats_detected = @ + 1]
    /\ workers' = [workers EXCEPT ![w].pc = "alert"]
    /\ UNCHANGED <<monitor_active, is_active, stop_event, monitoring_thread,
                   response_threshold, response_actions, stopping, call>>
    /\ UNCHANGED <<storeVars, scoreVars>>

\* with self.response_lock: self.stats['total_threats_detected'] += 1
CountThreat(w) ==
    /\ workers[w].pc = "handle"
    /\ response_lock = 0
    /\ response_lock' = w
    /\ stats' = [stats EXCEPT !.total_threats_detected = @ + 1]
    /\ workers' = [workers EXCEPT ![w].pc = "alert"]
    /\ UNCHANGED <<monitor_active, is_active, stop_event, monitoring_thread,
                   response_threshold, response_actions, stopping, call>>
    /\ UNCHANGED <<storeVars, scoreVars>>

\* _log_response_action(action_type='alert', ...), then the call of
\* _create_emergency_backups, where list(set(...)) fixes the file order
LogAlert(w, order) ==
    /\ workers[w].pc = "alert"
    /\ order \in Perms(workers[w].det.affected_files)
    /\ response_actions' = Append(response_actions,
           Action("alert", <<"system">>, TRUE, workers[w].det.threat_score))
    /\ workers' = [workers EXCEPT ![w].pc = "backup", ![w].files = order,
                                  ![w].idx = 1, ![w].results = <<>>,
                                  ![w].logged = Len(response_actions)]
    /\ UNCHANGED <<monitor_active, is_active, stop_event, monitoring_thread,
                   response_threshold, stats, response_lock, stopping, call>>
    /\ UNCHANGED <<storeVars, scoreVars>>

\* _create_emergency_backups, one file of the loop up to the counter:
\* create_backup and self.stats['automatic_backups_created'] += 1
CopyBackup(w) ==
    /\ workers[w].pc = "backup"
    /\ workers[w].idx <= Len(workers[w].files)
    /\ IF Exists(disk, workers[w].files[workers[w].idx])
       THEN /\ CreateBackup(workers[w].files[workers[w].idx], NoRace)
            /\ stats' = [stats EXCEPT !.automatic_backups_created =
                            IF ret'.ok THEN @ + 1 ELSE @]
            /\ workers' = [workers EXCEPT ![w].pc =
                            IF ret'.ok THEN "log backup" ELSE "log failed backup"]
       ELSE /\ UNCHANGED storeVars
            /\ UNCHANGED stats
            /\ workers' = [workers EXCEPT ![w].idx = @ + 1]
    /\ UNCHANGED <<monitor_active, is_active, stop_event, monitoring_thread,
                   response_threshold, response_actions, response_lock, stopping,
                   call>>
    /\ UNCHANGED scoreVars

\* _create_emergency_backups, the _log_response_action of one file
LogBackup(w) ==
    /\ workers[w].pc \in {"log backup", "log failed backup"}
    /\ response_actions' = Append(response_actions,
           Action("backup", workers[w].files[workers[w].idx],
                  workers[w].pc = "log backup", workers[w].det.threat_score))
    /\ workers' = [workers EXCEPT ![w].pc = "backup", ![w].idx = @ + 1]
    /\ UNCHANGED <<monitor_active, is_active, stop_event, monitoring_thread,
                   response_threshold, stats, response_lock, stopping, call>>
    /\ UNCHANGED <<storeVars, scoreVars>>

\* restore_multiple returns and the loop over its results begins
RestoredAll(w) ==
    /\ workers[w].pc = "recover"
    /\ workers[w].idx > Len(workers[w].files)
    /\ workers' = [workers EXCEPT ![w].pc = "count", ![w].idx = 1]
    /\ UNCHANGED <<monitor_active, is_active, stop_event, monitoring_thread,
                   response_threshold, response_actions, stats, response_lock,
                   stopping, call>>
    /\ UNCHANGED <<storeVars, scoreVars>>

\* if result.success: self.stats['automatic_recoveries_performed'] += 1
CountRecovery(w) ==
    /\ workers[w].pc = "count"
    /\ workers[w].idx <= Len(workers[w].results)
    /\ stats' = [stats EXCEPT !.automatic_recoveries_performed =
                    IF workers[w].results[workers[w].idx].success THEN @ + 1 ELSE @]
    /\ workers' = [workers EXCEPT ![w].pc = "log recovery"]
    /\ UNCHANGED <<monitor_active, is_active, stop_event, monitoring_thread,
                   response_threshold, response_actions, response_lock, stopping,
                   call>>
    /\ UNCHANGED <<storeVars, scoreVars>>

\* _log_response_action(action_type='recovery', ...) of one result
LogRecoveryAction(w) ==
    /\ workers[w].pc = "log recovery"
    /\ response_actions' = Append(response_actions,
           RecoveryActions(workers[w].results, workers[w].det.threat_score)[workers[w].idx])
    /\ workers' = [workers EXCEPT ![w].pc = "count", ![w].idx = @ + 1]
    /\ UNCHANGED <<monitor_active, is_active, stop_event, monitoring_thread,
                   response_threshold, stats, response_lock, stopping, call>>
    /\ UNCHANGED <<storeVars, scoreVars>>

\* the end of _trigger_automated_recovery: _update_response_statistics, and
\* the lock released
EndRecovery(w) ==
    /\ workers[w].pc = "count"
    /\ workers[w].idx > Len(workers[w].results)
    /\ stats' = [stats EXCEPT !.response_success_rate = SuccessRate(response_actions, @)]
    /\ response_lock' = 0
    /\ workers' = [workers EXCEPT ![w].pc = "sleep", ![w].iter = "recovered"]
    /\ UNCHANGED <<monitor_active, is_active, stop_event, monitoring_thread,
                   response_threshold, response_actions, stopping, call>>
    /\ UNCHANGED <<storeVars, scoreVars>>

\* get_response_statistics, called by another thread: no lock is taken
GetResponseStatistics ==
    /\ stats' = [stats EXCEPT !.response_success_rate = SuccessRate(response_actions, @)]
    /\ call' = [op |-> "get_response_statistics",
                result |-> [is_active |-> is_active,
                            response_threshold |-> response_threshold,
                            total_threats_detected |-> stats.total_threats_detected,
                            automatic_backups_created |-> stats.automatic_backups_created,
                            automatic_recoveries_performed |->
                                stats.automatic_recoveries_performed,
                            response_success_rate_percent |->
                                SuccessRate(response_actions, stats.response_success_rate),
                            total_response_actions |-> Len(response_actions)],
                pre |-> OrchState]
    /\ UNCHANGED <<monitor_active, is_active, stop_event, monitoring_thread,
                   response_threshold, response_actions, response_lock, workers,
                   stopping>>
    /\ UNCHANGED <<storeVars, scoreVars>>

StatsCountThreat == \E w \in Workers : CountThreat(w)

StatsLogAlert ==
    \E w \in Workers : \E order \in Perms(workers[w].det.affected_files) :
        LogAlert(w, order)

StatsCopyBackup == \E w \in Workers : CopyBackup(w)

StatsLogBackup == \E w \in Workers : LogBackup(w)

StatsRestoredAll == \E w \in Workers : RestoredAll(w)

StatsCountRecovery == \E w \in Workers : CountRecovery(w)

StatsLogRecovery == \E w \in Workers : LogRecoveryAction(w)

StatsEndRecovery == \E w \in Workers : EndRecovery(w)

NextStats ==
    \/ OrchStart
    \/ OrchStartMonitoring
    \/ OrchLoopTest
    \/ OrchPoll
    \/ StatsCountThreat
    \/ StatsLogAlert
    \/ StatsCopyBackup
    \/ StatsLogBackup
    \/ OrchRecoveryGate
    \/ OrchRestoreNext
    \/ StatsRestoredAll
    \/ StatsCountRecovery
    \/ StatsLogRecovery
    \/ StatsEndRecovery
    \/ OrchSleep
    \/ GetResponseStatistics

SpecStats == InitStop /\ [][NextStats]_vars

AlertsOf(log) == Cardinality({i \in DOMAIN log : log[i].action_type = "alert"})

DoneOf(log, type) ==
    Cardinality({i \in DOMAIN log : log[i].action_type = type /\ log[i].success})

\* C13: the values a get_response_statistics call returned agree with the
\* ledger of the length it reported: as many threats as alert entries, as many
\* backups as successful backup entries, as many recoveries as successful
\* recovery entries.
C13_ConsistentSnapshot ==
    call.op = "get_response_statistics" =>
        LET log == SubSeq(response_actions, 1, call.result.total_response_actions)
        IN  /\ call.result.total_threats_detected = AlertsOf(log)
            /\ call.result.automatic_backups_created = DoneOf(log, "backup")
            /\ call.result.automatic_recoveries_performed = DoneOf(log, "recovery")

-----------------------------------------------------------------------------
(* The event ledger statement by statement: add_file_event called from     *)
(* callback threads, get_recent_events called by the worker, and the clock *)

\* add_file_event up to self.recent_events.append(file_event)
RecordAppend(t, kind, p) ==
    /\ callbacks[t].pc = "idle"
    /\ LET e == [timestamp  |-> now,
                 file_path  |-> p,
                 event_type |-> kind,
                 file_size  |-> IF Exists(disk, p) THEN Size(disk[p]) ELSE 0]
       IN  /\ recent_events' = Append(recent_events, e)
           /\ recorded' = Append(recorded, e)
    /\ callbacks' = [callbacks EXCEPT ![t].pc = "appended"]
    /\ UNCHANGED <<detection_threshold, time_window_seconds, detection>>
    /\ UNCHANGED <<storeVars, orchVars>>

\* add_file_event: the list comprehension over self.recent_events, with
\* cutoff_time = datetime.now() - timedelta(seconds=60)
RecordFilter(t) ==
    /\ callbacks[t].pc = "appended"
    /\ callbacks' = [callbacks EXCEPT
           ![t].pc = "filtered",
           ![t].kept = FilterRecentEvents(recent_events, now, HorizonSeconds)]
    /\ UNCHANGED <<recent_events, detection_threshold, time_window_seconds,
                   detection, recorded>>
    /\ UNCHANGED <<storeVars, orchVars>>

\* add_file_event: self.recent_events = the list the comprehension built
RecordAssign(t) ==
    /\ callbacks[t].pc = "filtered"
    /\ recent_events' = callbacks[t].kept
    /\ callbacks' = [callbacks EXCEPT ![t].pc = "idle", ![t].kept = <<>>]
    /\ UNCHANGED <<detection_threshold, time_window_seconds, detection, recorded>>
    /\ UNCHANGED <<storeVars, orchVars>>

\* get_recent_events(seconds), called by another thread
ReadRecentEvents(seconds) ==
    /\ ret' = [op |-> "get_recent_events", seconds |-> seconds,
               events |-> GetRecentEvents(seconds)]
    /\ UNCHANGED <<now, disk, bdisk, retention_count, backup_records, nextId,
                   recovery_stats, lastBackup, extDeleted>>
    /\ UNCHANGED <<scoreVars, orchVars>>

\* get_modification_count(seconds), called by another thread
ReadModificationCount(seconds) ==
    /\ ret' = [op |-> "get_modification_count", seconds |-> seconds,
               events |-> GetRecentEvents(seconds),
               count |-> GetModificationCount(seconds)]
    /\ UNCHANGED <<now, disk, bdisk, retention_count, backup_records, nextId,
                   recovery_stats, lastBackup, extDeleted>>
    /\ UNCHANGED <<scoreVars, orchVars>>

InitLedger ==
    /\ now = 0
    /\ disk = (PathA :> Clean)
    /\ bdisk = <<>>
    /\ retention_count = DefaultRetention
    /\ backup_records = <<>>
    /\ nextId = 1
    /\ recovery_stats = NoStats
    /\ ret = NoRet
    /\ lastBackup = (PathA :> NoFile)
    /\ extDeleted = FALSE
    /\ ScoreIdle
    /\ OrchIdle
    /\ monitor_active = TRUE
    /\ response_threshold = DefaultResponseThreshold

LedgerAppend ==
    /\ Len(recorded) < MaxRecords
    /\ \E t \in Callbacks, kind \in {"modified", "created"} : RecordAppend(t, kind, PathA)

LedgerFilter == \E t \in Callbacks : RecordFilter(t)

LedgerAssign == \E t \in Callbacks : RecordAssign(t)

LedgerRead == \E seconds \in {PollSeconds, HorizonSeconds} : ReadRecentEvents(seconds)

\* half a horizon passes, up to three horizons after the start
LedgerElapse ==
    /\ now < 3 * HorizonSeconds * TicksPerSec
    /\ Elapse(HorizonSeconds \div 2)

NextLedger ==
    \/ LedgerAppend
    \/ LedgerFilter
    \/ LedgerAssign
    \/ LedgerRead
    \/ LedgerElapse

SpecLedger == InitLedger /\ [][NextLedger]_vars

C15_NoStaleEvent ==
    (\A t \in Callbacks : callbacks[t].pc = "idle") =>
        \A i \in DOMAIN recent_events :
            recent_events[i].timestamp >= now - HorizonSeconds * TicksPerSec

-----------------------------------------------------------------------------
(* The orchestrator when an iteration of the loop can raise *)

FaultFail == \E w \in Workers : Fail(w)

FaultErrorSleep == \E w \in Workers : ErrorSleep(w)

NextFault ==
    \/ OrchStart
    \/ OrchStop
    \/ OrchStopReturns
    \/ OrchStartMonitoring
    \/ OrchLoopTest
    \/ OrchPoll
    \/ OrchHandle
    \/ OrchEmergencyBackup
    \/ OrchRecoveryGate
    \/ OrchRestoreNext
    \/ OrchLogRecovery
    \/ OrchSleep
    \/ FaultFail
    \/ FaultErrorSleep

\* a thread that sleeps wakes up, and a thread at the loop test takes it
FaultFairness ==
    \A w \in Workers : WF_vars(ErrorSleep(w)) /\ WF_vars(LoopTest(w))

\* the burst of a plain and a suspicious name, under the lower recovery threshold
InitFault ==
    /\ InitStop
    /\ Len(recent_events) = 2
    /\ recent_events[1].file_path # recent_events[2].file_path
    /\ response_threshold = 40

SpecFault == InitFault /\ [][NextFault]_vars /\ FaultFairness

\* C16: the response lock is held only by a worker inside its handling, never
\* by one that failed; a worker that failed sleeps and then tests the stop
\* flag, it terminates only at a test that finds the flag set, and it stays
\* neither in the sleep after a failure nor at the test for ever: it comes to
\* the next iteration or, the flag being set, to its end.
C16_SurvivesFailures ==
    /\ [](\A w \in Workers : response_lock = w => workers[w].pc \in {"backup", "recover"})
    /\ [][\A w \in Workers :
            /\ (workers[w].pc = "error sleep" /\ workers'[w].pc # "error sleep")
                  => workers'[w].pc = "check"
            /\ (workers[w].pc = "check" /\ workers'[w].pc # "check")
                  => workers'[w].pc = IF stop_event THEN "done" ELSE "poll"
            /\ (workers[w].pc # "done" /\ workers'[w].pc = "done")
                  => (workers[w].pc = "check" /\ stop_event)]_vars
    /\ \A w \in Workers : []<>(workers[w].pc \notin {"error sleep", "check"})

C16_Witness ==
    \E w \in Workers :
        /\ workers[w].pc = "poll"
        /\ workers[w].iter = "failed handling"
        /\ response_lock = 0
        /\ ~stop_event

-----------------------------------------------------------------------------
(* Claims about the names and the failures of the snapshot store *)

\* C17: any two records the store holds have different backup paths.
C17_DistinctBackupPaths ==
    \A r1, r2 \in AllRecords : r1.id # r2.id => r1.backup_path # r2.backup_path

\* C18: a create_backup call whose source does not exist returns its failure
\* value and changes neither the records nor the backup files nor the
\* watched files.
C18_MissingSourceChangesNothing ==
    [][(ret'.op = "create_backup" /\ ~Exists(disk, ret'.path)) =>
          /\ ~ret'.ok
          /\ backup_records' = backup_records
          /\ bdisk' = bdisk
          /\ disk' = disk]_vars

C18_Witness ==
    /\ ret.op = "create_backup"
    /\ ~ret.ok
    /\ ~Exists(disk, ret.path)
    /\ AllRecords # {}

-----------------------------------------------------------------------------
(* Claims about the action ledger *)

\* C20: every step leaves the entries of response_actions in place, as a
\* prefix of the new list, and lowers none of the three counters.
C20_AppendOnly ==
    [][/\ Len(response_actions') >= Len(response_actions)
       /\ SubSeq(response_actions', 1, Len(response_actions)) = response_actions
       /\ stats'.total_threats_detected >= stats.total_threats_detected
       /\ stats'.automatic_backups_created >= stats.automatic_backups_created
       /\ stats'.automatic_recoveries_performed
             >= stats.automatic_recoveries_performed]_vars

C20_Witness ==
    /\ Created = 2
    /\ is_active
    /\ call.op = "start"
    /\ Len(response_actions) >= 2
    /\ stats.total_threats_detected >= 1

-----------------------------------------------------------------------------
(* The three heuristics of the scorer, each on the batches that exercise it *)

Repeat(e, n) == [i \in 1..n |-> e]

RECURSIVE Flatten(_)
Flatten(ss) == IF ss = <<>> THEN <<>> ELSE Head(ss) \o Flatten(Tail(ss))

\* up to MaxPlain events of one kind on one plain path
RateBatches ==
    {Repeat(Event(kind, PathA, 100), n) :
        kind \in {"modified", "created", "deleted"}, n \in 0..MaxPlain}

\* up to MaxSuspicious events of one kind on one path, whose extension is
\* suspicious in upper case, suspicious in lower case, or plain
ExtBatches ==
    {Repeat(Event(kind, <<"d1", "b", x>>, 100), m) :
        kind \in {"modified", "created", "moved"},
        x \in {".LOCKED", ".enc", ".txt"},
        m \in 0..MaxSuspicious}

\* the sizes the modified events of one file report, in time order
Growths == {<<100, 110>>, <<100, 120>>, <<100, 130>>, <<0, 130>>, <<100, 130, 170>>}

GrowingNames == <<"g1", "g2", "g3", "g4">>

\* the modified events of the i-th growing file
GrowthEvents(i, sizes) ==
    [j \in DOMAIN sizes |-> Event("modified", <<"d2", GrowingNames[i], ".txt">>, sizes[j])]

\* up to MaxGrowing files, each written two or three times
GrowthBatches ==
    {Flatten([i \in DOMAIN gs |-> GrowthEvents(i, gs[i])]) :
        gs \in SeqsUpTo(Growths, MaxGrowing)}

\* up to MaxMixed events of any kind, on a plain and on a suspicious path
MixedBatches ==
    SeqsUpTo({Event("modified", PathA, 100), Event("deleted", PathA, 0),
              Event("created", PathB, 100), Event("moved", PathB, 100)}, MaxMixed)

InitSub ==
    /\ StoreIdle
    /\ OrchIdle
    /\ monitor_active = FALSE
    /\ response_threshold = DefaultResponseThreshold
    /\ time_window_seconds = DefaultWindow
    /\ detection_threshold \in 1..DefaultThreshold
    /\ \E s \in RateBatches \cup ExtBatches \cup GrowthBatches \cup MixedBatches,
          stale \in 0..MaxStale :
           recent_events = Stamped(s, stale, 0)
    /\ detection = NoDetection
    /\ LedgerIdle

SpecSub == InitSub /\ [][NextScore]_vars

\* the events of the ledger inside the window of the analysis
InWindow ==
    {i \in DOMAIN recent_events :
        recent_events[i].timestamp > now - time_window_seconds * TicksPerSec}

\* the verdict on hand was computed at the current time
Analyzed == now = DefaultWindow * TicksPerSec /\ detection.timestamp = now

\* C21: with n the number of created or modified events in the window, the
\* rate sub-score is min(30 + 5 * (n - detection_threshold), 50) when
\* n >= detection_threshold and 0 otherwise, events of one path counted each.
C21_RateSubScore ==
    Analyzed =>
        LET n == Cardinality({i \in InWindow :
                     recent_events[i].event_type \in {"created", "modified"}})
        IN  detection.modification_score =
                IF n >= detection_threshold
                THEN Min(30 + 5 * (n - detection_threshold), 50)
                ELSE 0

\* threshold 5 and 7 events of one path give 40
C21_Witness ==
    /\ Analyzed
    /\ detection_threshold = 5
    /\ Cardinality(InWindow) = 7
    /\ Cardinality(Paths(recent_events)) = 1
    /\ detection.modification_score = 40

\* C22: with m the number of created or modified events in the window whose
\* path, compared without regard to case, ends with a suspicious extension,
\* the extension sub-score is min(40 + 10 * m, 60) when m > 0 and 0 otherwise.
C22_ExtensionSubScore ==
    Analyzed =>
        LET m == Cardinality({i \in InWindow :
                     /\ recent_events[i].event_type \in {"created", "modified"}
                     /\ Lower(Suffix(recent_events[i].file_path)) \in suspicious_extensions})
        IN  detection.extension_score = IF m > 0 THEN Min(40 + 10 * m, 60) ELSE 0

\* exactly two modified events on an upper-case .LOCKED path give 60
C22_Witness ==
    /\ Analyzed
    /\ Len(recent_events) = 2
    /\ InWindow = {1, 2}
    /\ \A i \in InWindow :
           /\ recent_events[i].event_type = "modified"
           /\ Suffix(recent_events[i].file_path) = ".LOCKED"
    /\ detection.extension_score = 60

\* the paths some consecutive pair of whose modified events in the window,
\* in time order, grew by more than a fifth from a size above zero
FlaggedPaths ==
    LET Mods(p) == {i \in InWindow : /\ recent_events[i].event_type = "modified"
                                     /\ recent_events[i].file_path = p}
        Consecutive(p, i, j) ==
            /\ i \in Mods(p) /\ j \in Mods(p) /\ i < j
            /\ ~\E h \in Mods(p) : i < h /\ h < j
    IN  {p \in Paths(recent_events) :
            \E i, j \in InWindow :
                /\ Consecutive(p, i, j)
                /\ recent_events[i].file_size > 0
                /\ 10 * recent_events[j].file_size > 12 * recent_events[i].file_size}

\* C23: a path is flagged once iff some consecutive pair of its modified
\* events has a previous size above 0 and a current size strictly above 1.2
\* times it; with k flagged paths the growth sub-score is min(20 + 5 * k, 30)
\* when k > 0 and 0 otherwise.
C23_GrowthSubScore ==
    Analyzed =>
        LET k == Cardinality(FlaggedPaths)
        IN  detection.size_score = IF k > 0 THEN Min(20 + 5 * k, 30) ELSE 0

\* of three files, the one growing 100 to 130 to 170 is flagged once and the
\* ones growing 100 to 120 and 100 to 110 are not
C23_Witness ==
    /\ Analyzed
    /\ Cardinality(InWindow) = 7
    /\ \E i \in InWindow : recent_events[i].file_size = 110
    /\ \E i \in InWindow : recent_events[i].file_size = 120
    /\ \E i \in InWindow : recent_events[i].file_size = 170
    /\ Cardinality(FlaggedPaths) = 1
    /\ detection.size_score = 25

-----------------------------------------------------------------------------
(* The actions and the counters of one threat handling *)

\* the actions appended by a step
Appended == SubSeq(response_actions', Len(response_actions) + 1, Len(response_actions'))

Extends == /\ Len(response_actions') >= Len(response_actions)
           /\ SubSeq(response_actions', 1, Len(response_actions)) = response_actions

\* the actions of the handling worker w is in or has just left
HandlingLog(w, log) == SubSeq(log, workers[w].logged + 1, Len(log))

CountOf(log, type, p) ==
    Cardinality({i \in DOMAIN log : log[i].action_type = type /\ log[i].file_path = p})

C25_CountersMatchLedger ==
    response_lock = 0 =>
        /\ stats.total_threats_detected = AlertsOf(response_actions)
        /\ stats.automatic_backups_created = DoneOf(response_actions, "backup")
        /\ stats.automatic_recoveries_performed = DoneOf(response_actions, "recovery")

\* the lock is free after a handling that backed files up and recovered them
C25_Witness ==
    /\ response_lock = 0
    /\ stats.total_threats_detected = 1
    /\ stats.automatic_backups_created = 2
    /\ stats.automatic_recoveries_performed = 2
    /\ Len(response_actions) = 5

-----------------------------------------------------------------------------
(* The two readers of the ledger, while time passes and no event arrives *)

\* the ledgers of up to MaxLedger events that arrived at time 0 or one poll
\* period later, the older ones first
ReadLedgers ==
    {s \in SeqsUpTo([file_path : {PathA}, event_type : {"modified", "created", "deleted"},
                     file_size : {100}, timestamp : {0, PollSeconds * TicksPerSec}],
                    MaxLedger) :
        \A i, j \in DOMAIN s : i < j => s[i].timestamp <= s[j].timestamp}

InitRead ==
    /\ now = PollSeconds * TicksPerSec
    /\ disk = (PathA :> Clean)
    /\ bdisk = <<>>
    /\ retention_count = DefaultRetention
    /\ backup_records = <<>>
    /\ nextId = 1
    /\ recovery_stats = NoStats
    /\ ret = NoRet
    /\ lastBackup = (PathA :> NoFile)
    /\ extDeleted = FALSE
    /\ recent_events \in ReadLedgers
    /\ detection_threshold = DefaultThreshold
    /\ time_window_seconds = DefaultWindow
    /\ detection = NoDetection
    /\ LedgerIdle
    /\ OrchIdle
    /\ monitor_active = TRUE
    /\ response_threshold = DefaultResponseThreshold

ReadElapse ==
    /\ now < (HorizonSeconds + PollSeconds) * TicksPerSec
    /\ Elapse(PollSeconds)

ReadCount == \E seconds \in {PollSeconds, HorizonSeconds} : ReadModificationCount(seconds)

NextRead ==
    \/ LedgerRead
    \/ ReadCount
    \/ ReadElapse

SpecRead == InitRead /\ [][NextRead]_vars

\* C26: get_recent_events(seconds) returns the events of the ledger whose
\* timestamp is strictly newer than now minus seconds, in the order of the
\* ledger, and leaves the ledger as it was; get_modification_count(seconds)
\* is the number of events of type modified among them.
C26_RecentEventsExact ==
    [][(/\ ret'.op \in {"get_recent_events", "get_modification_count"}
        /\ UNCHANGED <<now, callbacks>>) =>
           LET newer == {i \in DOMAIN recent_events :
                            recent_events[i].timestamp > now - ret'.seconds * TicksPerSec}
               got   == ret'.events
           IN  /\ recent_events' = recent_events
               /\ Len(got) = Cardinality(newer)
               /\ \A k \in DOMAIN got :
                      \E i \in newer :
                          /\ got[k] = recent_events[i]
                          /\ Cardinality({j \in newer : j < i}) = k - 1
               /\ ret'.op = "get_modification_count" =>
                      ret'.count = Cardinality({i \in newer :
                                       recent_events[i].event_type = "modified"})
    ]_vars

\* a count of 1 was returned for a window that held a created and a modified
\* event and left out a modified event whose timestamp is exactly now minus
\* the window
C26_Witness ==
    /\ ret.op = "get_modification_count"
    /\ ret.count = 1
    /\ Len(ret.events) = 2
    /\ Len(recent_events) = 3
    /\ recent_events[1].event_type = "modified"
    /\ recent_events[1].timestamp = now - ret.seconds * TicksPerSec

-----------------------------------------------------------------------------
(* The recovery engine over prepared versions, while another process may   *)
(* write or delete the restored file between the copy and its verification *)

RecoverContents == Contents \cup {<<1, "z">>}

RecoverRaces == {NoRace, <<"delete">>} \cup {<<"write", c>> : c \in RecoverContents}

VersionedPath == <<"d1", "f", ".txt">>

\* the k-th version of the path, taken at millisecond k with content c
Version(k, c) ==
    [original_path |-> VersionedPath,
     backup_path   |-> BackupPath(VersionedPath, k * TicksPerMs),
     timestamp     |-> k * TicksPerMs,
     file_size     |-> Size(c),
     id            |-> k]

\* restore_file when the restored file may change after shutil.copy2 and
\* before verify_restoration reads it
RestoreFileRaced(p, verify, race) ==
    /\ LET res0     == RestoreResult(p, verify)
           copied   == IF res0.success THEN bdisk[res0.backup_used[1]] ELSE NoFile
           restored == IF res0.success THEN AfterRace(copied, race) ELSE NoFile
           rec      == UsedRecord(p, res0.used)
           res      == IF res0.success /\ verify
                       THEN [res0 EXCEPT !.verification_passed =
                                             VerifyRestoration(restored, rec)]
                       ELSE res0
       IN  /\ disk' = IF res0.success THEN [disk EXCEPT ![p] = restored] ELSE disk
           /\ recovery_stats' = StatsAfter(recovery_stats, res)
           /\ ret' = [op |-> "restore_file", path |-> p, result |-> res,
                      newest |-> IF HasLatest(p) THEN GetLatestBackup(p).id ELSE 0,
                      verify |-> verify, copied |-> copied, restored |-> restored,
                      recorded_size |-> IF res0.success THEN rec.file_size ELSE 0]
    /\ UNCHANGED <<now, bdisk, retention_count, backup_records, nextId,
                   lastBackup, extDeleted>>

\* up to MaxVersions versions of one path, the newest first, some of whose
\* backup files are gone; the other path has no version
InitRecover ==
    /\ now = (MaxVersions + 1) * TicksPerMs
    /\ disk \in [StorePaths -> {NoFile, <<2, "y">>}]
    /\ \E n \in 0..MaxVersions :
       \E cs \in [1..n -> Contents], present \in SUBSET (1..n) :
           /\ backup_records =
                  IF n = 0 THEN <<>>
                  ELSE (VersionedPath :> [i \in 1..n |-> Version(n + 1 - i, cs[n + 1 - i])])
           /\ bdisk = [b \in {Version(k, cs[k]).backup_path : k \in present} |->
                          LET k == CHOOSE j \in present : Version(j, cs[j]).backup_path = b
                          IN  cs[k]]
           /\ nextId = n + 1
           /\ lastBackup = [p \in StorePaths |->
                               IF p = VersionedPath /\ n > 0 THEN cs[n] ELSE NoFile]
           /\ extDeleted = (present # 1..n)
    /\ retention_count = DefaultRetention
    /\ recovery_stats = NoStats
    /\ ret = NoRet
    /\ ScoreIdle
    /\ OrchIdle
    /\ monitor_active = FALSE
    /\ response_threshold = DefaultResponseThreshold

RecoverRestore ==
    /\ recovery_stats.total_attempts < MaxCalls
    /\ \E p \in StorePaths, verify \in BOOLEAN, race \in RecoverRaces :
           RestoreFileRaced(p, verify, race)
    /\ UNCHANGED <<scoreVars, orchVars>>

NextRecover ==
    \/ RecoverRestore
    \/ StoreDeleteBackupFile

SpecRecover == InitRecover /\ [][NextRecover]_vars

\* a restore_file call returns in this step
Restores == recovery_stats' # recovery_stats

\* C27: restore_file of a path that has no record returns success = False
\* with no backup_used and the error "No backup found", leaves the target as
\* it was, and adds 1 to total_attempts and to failed_recoveries.
C27_NoRecordFails ==
    [][(Restores /\ ~HasLatest(ret'.path)) =>
           /\ ~ret'.result.success
           /\ ret'.result.backup_used = <<>>
           /\ ret'.result.error_message = "No backup found for file"
           /\ ~ret'.result.verification_passed
           /\ disk' = disk
           /\ bdisk' = bdisk
           /\ recovery_stats'.total_attempts = recovery_stats.total_attempts + 1
           /\ recovery_stats'.failed_recoveries = recovery_stats.failed_recoveries + 1
           /\ recovery_stats'.successful_recoveries = recovery_stats.successful_recoveries
    ]_vars

\* the second call failed for a path that has a file and no record
C27_Witness ==
    /\ ret.op = "restore_file"
    /\ ~HasLatest(ret.path)
    /\ Exists(disk, ret.path)
    /\ ~ret.result.success
    /\ recovery_stats.total_attempts = 2
    /\ recovery_stats.failed_recoveries >= 1

\* C28: a restore_file call adds 1 to total_attempts whatever the number of
\* versions it tries and adds 1 to exactly one of successful_recoveries and
\* failed_recoveries; after it total_attempts = successful_recoveries +
\* failed_recoveries and files_recovered has successful_recoveries entries.
C28_RecoveryCounters ==
    [][Restores =>
           LET old == recovery_stats
               new == recovery_stats'
           IN  /\ new.total_attempts = old.total_attempts + 1
               /\ \/ /\ ret'.result.success
                     /\ new.successful_recoveries = old.successful_recoveries + 1
                     /\ new.failed_recoveries = old.failed_recoveries
                  \/ /\ ~ret'.result.success
                     /\ new.successful_recoveries = old.successful_recoveries
                     /\ new.failed_recoveries = old.failed_recoveries + 1
               /\ new.total_attempts = new.successful_recoveries + new.failed_recoveries
               /\ Len(new.files_recovered) = new.successful_recoveries
    ]_vars

\* of two calls one failed and one succeeded from the older version, the
\* backup file of the newest being gone
C28_Witness ==
    /\ ret.op = "restore_file"
    /\ ret.result.success
    /\ ret.result.used # ret.newest
    /\ recovery_stats.total_attempts = 2
    /\ recovery_stats.failed_recoveries = 1
    /\ Len(recovery_stats.files_recovered) = 1

\* the restored file has the recorded size and not the bytes of the backup
HashMismatch(r) ==
    /\ r.op = "restore_file"
    /\ r.verify
    /\ r.result.used # 0
    /\ r.restored # NoFile
    /\ Size(r.restored) = r.recorded_size
    /\ r.restored # r.copied

\* C29: when the copy of a restore attempt succeeds and the restored file has
\* the recorded size but not the hash of the backup file, restore_file returns
\* success = True with verification_passed = True, from the newest version
\* whose backup file exists.
C29_HashLeniency ==
    [][(Restores /\ HashMismatch(ret')) =>
           /\ ret'.result.success
           /\ ret'.result.verification_passed
           /\ \A r \in Restorable(ret'.path) : r.id <= ret'.result.used
    ]_vars

C29_Witness ==
    /\ HashMismatch(ret)
    /\ ret.result.success
    /\ ret.result.verification_passed
    /\ ret.copied = <<1, "x">>
    /\ ret.restored = <<1, "z">>

-----------------------------------------------------------------------------
(* The backup store while another process writes or deletes the source     *)
(* between shutil.copy2 and source_path.stat()                             *)

\* verify_backup: the file exists and has the size of the record found for
\* its path, or is not empty when no record names it
VerifyBackupIn(bd, records, b) ==
    /\ b \in DOMAIN bd
    /\ LET named == {r \in UNION {Range(records[p]) : p \in DOMAIN records} :
                        r.backup_path = b}
       IN  IF named # {}
           THEN \E r \in named : Size(bd[b]) = r.file_size
           ELSE Size(bd[b]) > 0

RaceCreateBackup ==
    /\ nextId <= MaxBackups
    /\ \E p \in DOMAIN disk, race \in Races : CreateBackup(p, race)
    /\ UNCHANGED <<scoreVars, orchVars>>

NextRace ==
    \/ RaceCreateBackup
    \/ StoreTick
    \/ StoreWriteFile

SpecRace == InitStore /\ [][NextRace]_vars

\* C30: right after a create_backup that returned a record, the file_size of
\* the record is the size of the backup file and verify_backup of its path is
\* true, also when another process changes the source while create_backup
\* runs.
C30_RecordedSizeIsCopiedSize ==
    [][(ret'.op = "create_backup" /\ nextId' # nextId) =>
           /\ ret'.record.backup_path \in DOMAIN bdisk'
           /\ ret'.record.file_size = Size(bdisk'[ret'.record.backup_path])
           /\ VerifyBackupIn(bdisk', backup_records', ret'.record.backup_path)
    ]_vars

-----------------------------------------------------------------------------
(* The orchestrator with the observer running: the loop sleeps 2 seconds   *)
(* per iteration, and a write that restore_file makes to a watched file is *)
(* delivered to on_created / on_modified like any other write              *)

SleepSeconds == 2

\* restore_multiple, one file of the loop, and the callback of the observer
\* for the copy it made: _trigger_automated_recovery reads is_active() and
\* leaves the observer running
RestoreNextWatched(w) ==
    /\ workers[w].pc = "recover"
    /\ workers[w].idx <= Len(workers[w].files)
    /\ LET f == workers[w].files[workers[w].idx]
       IN  /\ RestoreFile(f, TRUE)
           /\ recent_events' =
                  IF monitor_active /\ ret'.result.success
                  THEN AddFileEvent(recent_events,
                                    IF Exists(disk, f) THEN "modified" ELSE "created",
                                    f, disk')
                  ELSE recent_events
    /\ workers' = [workers EXCEPT ![w].idx = @ + 1,
                                  ![w].results = Append(@, ret'.result)]
    /\ UNCHANGED <<monitor_active, is_active, stop_event, monitoring_thread,
                   response_threshold, response_actions, stats, response_lock,
                   stopping, call>>
    /\ UNCHANGED <<detection_threshold, time_window_seconds, detection,
                   callbacks, recorded>>

\* time.sleep(2)
SleepFor(w) ==
    /\ workers[w].pc = "sleep"
    /\ workers' = [workers EXCEPT ![w].pc = "check"]
    /\ now' = now + SleepSeconds * TicksPerSec
    /\ UNCHANGED <<disk, bdisk, retention_count, backup_records, nextId,
                   recovery_stats, ret, lastBackup, extDeleted>>
    /\ UNCHANGED <<monitor_active, is_active, stop_event, monitoring_thread,
                   response_threshold, response_actions, stats, response_lock,
                   stopping, call>>
    /\ UNCHANGED scoreVars

\* the burst was recorded in the first milliseconds; the orchestrator is
\* started one second later and no other process writes from then on
BurstEnd == MaxBatch * TicksPerMs

InitWatch ==
    /\ now = TicksPerSec
    /\ disk \in [OrchPaths -> {Encrypted}]
    /\ bdisk = (PriorRecord.backup_path :> Clean)
    /\ retention_count \in 1..MaxRetention
    /\ backup_records = (PathA :> <<PriorRecord>>)
    /\ nextId = 2
    /\ recovery_stats = NoStats
    /\ ret = NoRet
    /\ lastBackup = [p \in OrchPaths |-> IF p = PathA THEN Clean ELSE NoFile]
    /\ extDeleted = FALSE
    /\ \E s \in OrchBatches : recent_events = Stamped(s, 0, 0)
    /\ LedgerIdle
    /\ detection_threshold \in 1..MaxThreshold
    /\ time_window_seconds = DefaultWindow
    /\ detection = NoDetection
    /\ OrchIdle
    /\ monitor_active = TRUE
    /\ response_threshold \in ResponseThresholds

WatchPoll ==
    /\ stats.total_threats_detected + Cardinality({w \in Workers : workers[w].pc = "handle"})
          < MaxHandlings
    /\ \E w \in Workers : Poll(w)

WatchRestoreNext == \E w \in Workers : RestoreNextWatched(w)

WatchSleep ==
    /\ now < (2 * MaxHandlings - 1) * TicksPerSec
    /\ \E w \in Workers : SleepFor(w)

NextWatch ==
    \/ OrchStart
    \/ OrchLoopTest
    \/ WatchPoll
    \/ OrchHandle
    \/ OrchEmergencyBackup
    \/ OrchRecoveryGate
    \/ WatchRestoreNext
    \/ OrchLogRecovery
    \/ WatchSleep

SpecWatch == InitWatch /\ [][NextWatch]_vars

\* C31: file monitoring is suspended for the duration of an automated
\* recovery, so that the writes the recovery makes to watched files are not
\* recorded in the ledger of events.
C31_RecoveryNotRecorded ==
    [][\A w \in Workers :
          (workers[w].pc = "recover" /\ workers'[w].idx = workers[w].idx + 1) =>
              recent_events' = recent_events
    ]_vars

\* the events in the 10-second pull that another process caused
ExternalInPull ==
    {i \in DOMAIN recent_events :
        /\ recent_events[i].timestamp <= BurstEnd
        /\ recent_events[i].timestamp > now - PollSeconds * TicksPerSec}

\* C32: once no other process changes a watched file any more, the
\* orchestrator stops handling threats: the writes of the automated recovery
\* do not by themselves trigger a detection, so a threat that is about to be
\* handled has in its window an event that another process caused.
C32_Quiescence ==
    \A w \in Workers : workers[w].pc = "handle" => ExternalInPull # {}

\* the pull of the loop scores as a threat
PullIsThreat ==
    LET pull == GetRecentEvents(PollSeconds)
    IN  /\ pull # <<>>
        /\ AnalyzeEvents(pull, now, detection_threshold, time_window_seconds).is_threat

\* C33: the orchestrator keeps no record of the events it has handled: in
\* every iteration of the loop whose 10-second pull scores as a threat the
\* threat is handled, also when the same events were handled before, so one
\* burst is counted, alerted and backed up once per iteration.
C33_HandledEveryIteration ==
    [][\A w \in Workers :
          (workers[w].pc = "poll" /\ workers'[w].pc # "poll" /\ PullIsThreat) =>
              workers'[w].pc = "handle"
    ]_vars

\* one burst, no recovery and no other event: five iterations have each
\* counted a threat, logged an alert and made a backup of the one affected file
C33_Witness ==
    /\ stats.total_threats_detected = 5
    /\ AlertsOf(response_actions) = 5
    /\ DoneOf(response_actions, "backup") = 5
    /\ stats.automatic_recoveries_performed = 0
    /\ \A i \in DOMAIN recent_events : recent_events[i].timestamp <= BurstEnd
    /\ Cardinality(Paths(recent_events)) = 1

\* the emergency backups of a path that the ledger of actions reports
EmergencyBackupsOf(p) == CountOf(SelectSeq(response_actions, LAMBDA a : a.success), "backup", p)

\* C34: emergency backups count against retention like any other backup:
\* once threat handling has made retention_count emergency backups of a file,
\* the store holds no version of it taken before the threat, and a
\* restore_file of it uses a version taken during the threat.
C34_EmergencyBackupsEvict ==
    \A p \in OrchPaths :
        EmergencyBackupsOf(p) >= retention_count =>
            /\ \A r \in Range(ListBackups(p)) : r.timestamp >= TicksPerSec
            /\ PriorRecord.original_path = p => PriorRecord.backup_path \notin DOMAIN bdisk
            /\ (ret.op = "restore_file" /\ ret.path = p /\ ret.result.success) =>
                   /\ ret.result.used # PriorRecord.id
                   /\ disk[p] # Clean

\* two emergency backups of the file that had a clean version, retention 2,
\* and the restore gave back the encrypted content
C34_Witness ==
    /\ retention_count = 2
    /\ EmergencyBackupsOf(PathA) = 2
    /\ ret.op = "restore_file"
    /\ ret.path = PathA
    /\ ret.result.success
    /\ disk[PathA] = Encrypted
    /\ Len(ListBackups(PathA)) = 2

\* the verdict on the events of the ledger that are created or modified
WithoutMovesAndDeletes ==
    AnalyzeEvents(SelectSeq(recent_events, LAMBDA e : e.event_type \in {"created", "modified"}),
                  now, detection_threshold, time_window_seconds)

\* C35: events of kind deleted or moved change no sub-score, and
\* affected_files holds only paths of created or modified events inside the
\* window; a moved event on a path with a suspicious extension does not raise
\* the extension sub-score and its path is not listed.
C35_MovesAndDeletesIgnored ==
    Analyzed =>
        /\ detection.modification_score = WithoutMovesAndDeletes.modification_score
        /\ detection.extension_score = WithoutMovesAndDeletes.extension_score
        /\ detection.size_score = WithoutMovesAndDeletes.size_score
        /\ detection.affected_files \subseteq
               {recent_events[i].file_path : i \in
                   {j \in InWindow : recent_events[j].event_type \in {"created", "modified"}}}

\* a file was moved to a suspicious name and another file was written: the
\* written file is affected, the moved one is not
C35_Witness ==
    /\ Analyzed
    /\ \E i \in InWindow : recent_events[i] .event_type = "moved"
                           /\ recent_events[i].file_path = PathB
    /\ \A i \in InWindow : recent_events[i].file_path = PathB =>
                               recent_events[i].event_type = "moved"
    /\ detection.extension_score = 0
    /\ detection.affected_files = {PathA}

\* the created or modified events in the window on a suspicious path
SuspiciousInWindow ==
    {i \in InWindow :
        /\ recent_events[i].event_type \in {"created", "modified"}
        /\ Lower(Suffix(recent_events[i].file_path)) \in suspicious_extensions}

\* C36: one created or modified event in the window whose path ends in a
\* suspicious extension gives an extension sub-score of 50 (more with further
\* such events) and is_threat = True, for every detection threshold and
\* whatever the other events are.
C36_OneSuspiciousEventIsThreat ==
    Analyzed =>
        /\ Cardinality(SuspiciousInWindow) = 1 => detection.extension_score = 50
        /\ SuspiciousInWindow # {} =>
               /\ detection.extension_score >= 50
               /\ detection.is_threat

\* a single created event on a .LOCKED path, detection threshold 5
C36_Witness ==
    /\ Analyzed
    /\ Len(recent_events) = 1
    /\ Cardinality(SuspiciousInWindow) = 1
    /\ detection_threshold = 5
    /\ detection.modification_score = 0
    /\ detection.threat_score = 50
    /\ detection.is_threat

-----------------------------------------------------------------------------
(* The monitoring loop with a configured time window *)

\* time_window_seconds as configured: below, at and above the loop's 10 s
Windows == {5, PollSeconds, 30}

InitWindow ==
    /\ now = TicksPerSec
    /\ disk \in [OrchPaths -> {Encrypted}]
    /\ bdisk = (PriorRecord.backup_path :> Clean)
    /\ retention_count = DefaultRetention
    /\ backup_records = (PathA :> <<PriorRecord>>)
    /\ nextId = 2
    /\ recovery_stats = NoStats
    /\ ret = NoRet
    /\ lastBackup = [p \in OrchPaths |-> IF p = PathA THEN Clean ELSE NoFile]
    /\ extDeleted = FALSE
    /\ \E s \in OrchBatches : recent_events = Stamped(s, 0, 0)
    /\ LedgerIdle
    /\ detection_threshold \in 1..MaxThreshold
    /\ time_window_seconds \in Windows
    /\ detection = NoDetection
    /\ OrchIdle
    /\ monitor_active = TRUE
    /\ response_threshold \in ResponseThresholds

SpecWindow == InitWindow /\ [][NextWatch]_vars

\* the events newer than min(10, time_window_seconds) seconds
ScoredEvents ==
    FilterRecentEvents(recent_events, now, Min(PollSeconds, time_window_seconds))

\* C37: in the monitoring loop the events that are scored are exactly those
\* newer than min(10, time_window_seconds) seconds, and no analysis is run
\* when the 10-second pull is empty.
C37_ScoredWindow ==
    [][\A w \in Workers :
          (workers[w].pc = "poll" /\ workers'[w].pc # "poll") =>
              LET rate == CheckModificationRate(ScoredEvents, detection_threshold)
                  ext  == CheckSuspiciousExtensions(ScoredEvents)
                  grow == CheckFileSizeChanges(ScoredEvents)
              IN  IF GetRecentEvents(PollSeconds) = <<>>
                  THEN /\ detection' = detection
                       /\ workers'[w].pc = "sleep"
                  ELSE /\ detection'.timestamp = now
                       /\ detection'.modification_score = rate[1]
                       /\ detection'.extension_score = ext[1]
                       /\ detection'.size_score = grow[1]
                       /\ detection'.affected_files = rate[2] \cup ext[2] \cup grow[2]
                       /\ detection'.is_threat = (rate[1] + ext[1] + grow[1] >= 50)
    ]_vars

\* a 30-second window, a pull that is not empty, and an event between 10 and
\* 30 seconds old that would have made a threat: it was not scored
C37_Witness ==
    /\ time_window_seconds > PollSeconds
    /\ detection.timestamp = now
    /\ \E w \in Workers : workers[w].pc = "sleep"
    /\ GetRecentEvents(PollSeconds) # <<>>
    /\ ~detection.is_threat
    /\ AnalyzeEvents(recent_events, now, detection_threshold,
                     time_window_seconds).is_threat

-----------------------------------------------------------------------------
(* Two monitoring threads that both find the threat *)

\* the threads of a system stopped during a handling and started again pull
\* the same events
PairPoll ==
    /\ stats.total_threats_detected + Cardinality({w \in Workers : workers[w].pc = "handle"})
          < MaxPair
    /\ \E w \in Workers : Poll(w)

NextPair ==
    \/ OrchStart
    \/ OrchStop
    \/ OrchStopReturns
    \/ OrchStartMonitoring
    \/ OrchLoopTest
    \/ PairPoll
    \/ StatsCountThreat
    \/ StatsLogAlert
    \/ StatsCopyBackup
    \/ StatsLogBackup
    \/ OrchRecoveryGate
    \/ OrchRestoreNext
    \/ StatsRestoredAll
    \/ StatsCountRecovery
    \/ StatsLogRecovery
    \/ StatsEndRecovery
    \/ OrchSleep

SpecPair == InitStop /\ [][NextPair]_vars

\* alert first, then backup entries, then recovery entries
AlertBackupsRecoveries(log) ==
    /\ log # <<>>
    /\ log[1].action_type = "alert"
    /\ \A i \in DOMAIN log : i > 1 => log[i].action_type \in {"backup", "recovery"}
    /\ \A i, j \in DOMAIN log :
           (i < j /\ log[i].action_type = "recovery") => log[j].action_type = "recovery"

\* C38: threat handlings never interleave in the action ledger: every entry is
\* appended by the thread that holds the response lock, and the entries from
\* that thread's alert to the end of the ledger are its own, ordered as the
\* alert, then the backup entries, then the recovery entries, even with more
\* than one worker thread running.
C38_HandlingsContiguous ==
    [][\A w \in Workers :
          (WorkerMoves(w) /\ response_actions' # response_actions) =>
              /\ Extends
              /\ Len(Appended) = 1
              /\ response_lock = w \/ response_lock' = w
              /\ \A v \in Workers \ {w} : workers[v].pc \notin
                     {"alert", "backup", "log backup", "log failed backup",
                      "recover", "count", "log recovery"}
              /\ IF Appended[1].action_type = "alert"
                 THEN workers'[w].logged = Len(response_actions)
                 ELSE workers'[w].logged = workers[w].logged
              /\ AlertBackupsRecoveries(
                     SubSeq(response_actions', workers'[w].logged + 1,
                            Len(response_actions')))
    ]_vars

\* two worker threads, each with a finished handling of its own in the ledger
C38_Witness ==
    \E v, w \in Workers :
        /\ v # w
        /\ response_lock = 0
        /\ workers[v].iter = "recovered"
        /\ workers[w].iter = "recovered"
        /\ workers[v].logged = 0
        /\ workers[w].logged > 1
        /\ workers[w].logged + 1 < Len(response_actions)

-----------------------------------------------------------------------------
(* restore_file and restore_multiple over a store some of whose files are gone *)

\* the loop of restore_multiple: restore_file on each path in input order
RECURSIVE RestoreAll(_, _, _)
RestoreAll(files, verify, acc) ==
    IF files = <<>> THEN acc
    ELSE LET res == RestoreResult(Head(files), verify)
         IN  RestoreAll(Tail(files), verify,
                        [disk    |-> RestoredDisk(acc.disk, res),
                         stats   |-> StatsAfter(acc.stats, res),
                         results |-> Append(acc.results, res)])

\* restore_multiple
RestoreMultiple(files, verify) ==
    /\ LET all == RestoreAll(files, verify,
                             [disk |-> disk, stats |-> recovery_stats, results |-> <<>>])
       IN  /\ disk' = all.disk
           /\ recovery_stats' = all.stats
           /\ ret' = [op |-> "restore_multiple", files |-> files, results |-> all.results]
    /\ UNCHANGED <<now, bdisk, retention_count, backup_records, nextId,
                   lastBackup, extDeleted>>

FrameRestoreFile ==
    /\ recovery_stats.total_attempts < MaxCalls
    /\ \E p \in StorePaths, verify \in BOOLEAN : RestoreFile(p, verify)
    /\ UNCHANGED <<scoreVars, orchVars>>

FrameRestoreMultiple ==
    /\ \E files \in SeqsUpTo(StorePaths, MaxCalls - recovery_stats.total_attempts),
          verify \in BOOLEAN :
           /\ ret # [op |-> "restore_multiple", files |-> files, results |-> <<>>]
           /\ RestoreMultiple(files, verify)
    /\ UNCHANGED <<scoreVars, orchVars>>

NextFrame ==
    \/ FrameRestoreFile
    \/ FrameRestoreMultiple
    \/ StoreDeleteBackupFile

SpecFrame == InitRecover /\ [][NextFrame]_vars

\* C39: restore_file and restore_multiple never change the store: whatever
\* their outcome, the backup records and the backup files are the same after
\* the call as before it, and list_backups returns the same versions.
C39_RestoreLeavesStore ==
    [][ret'.op \in {"restore_file", "restore_multiple"} =>
           /\ backup_records' = backup_records
           /\ bdisk' = bdisk
           /\ \A p \in StorePaths : ListBackups(p)' = ListBackups(p)
           /\ nextId' = nextId
    ]_vars

\* restore_multiple of both paths over two versions whose newest file is
\* gone: one restore from the fallback version and one failure
C39_Witness ==
    /\ ret.op = "restore_multiple"
    /\ Len(ret.results) = 2
    /\ \E i \in 1..2 : /\ ret.results[i].success
                       /\ ret.results[i].used # GetLatestBackup(ret.results[i].file_path).id
    /\ \E i \in 1..2 : ~ret.results[i].success
    /\ Len(ListBackups(VersionedPath)) = 2
    /\ Cardinality(DOMAIN bdisk) = 1
    /\ disk[VersionedPath] = bdisk[ListBackups(VersionedPath)[2].backup_path]

=============================================================================
